---------------------------- MODULE Spec2Model ----------------------------
(***************************************************************************)
(* A model of the phase-2 mutation engine of mbpp_pipeline:                *)
(*   phase2/mutations.py   the tree query, the span rewrite engine and the *)
(*                         four mutation operators                         *)
(*   phase2/adversarial.py the orchestrator build_adversarial_dataset and  *)
(*                         the semantic-equivalence oracle                 *)
(*   phase2/schema.py      MutationRecord and MutatedEntry                 *)
(*                                                                         *)
(* Source text is a sequence of one-character strings, one per byte; a     *)
(* syntax tree is a table of nodes in pre-order (node 1 is the root), each *)
(* node carrying its type tag, its half-open byte span, its children, its  *)
(* parent and the field name it has in its parent.                         *)
(***************************************************************************)
EXTENDS Integers, Sequences, FiniteSets, TLC

(***************************************************************************)
(* Bounds of the model.                                                    *)
(***************************************************************************)
MaxEntries == 2      \* longest entry list handed to build_adversarial_dataset
MaxCap == 2          \* largest max_mutations_per_entry
MaxRng == 11         \* generator states 0..MaxRng handed to a single apply
MaxSpans == 2        \* longest span list handed to _replace_ranges
MaxReturnCode == 2   \* largest exit code of the oracle's subprocess
MaxBatch == 2        \* longest entry list handed to load_and_validate

(***************************************************************************)
(* Text helpers.                                                           *)
(***************************************************************************)
Lower == {"a","b","c","d","e","f","g","h","i","j","k","l","m","n","o","p","q",
          "r","s","t","u","v","w","x","y","z"}
Upper == {"A","B","C","D","E","F","G","H","I","J","K","L","M","N","O","P","Q",
          "R","S","T","U","V","W","X","Y","Z"}
Digit == {"0","1","2","3","4","5","6","7","8","9"}
WordChar == Lower \cup Upper \cup Digit \cup {"_"}

Min(a, b) == IF a < b THEN a ELSE b
Max(a, b) == IF a < b THEN b ELSE a

\* Python's s[:n] and s[n:] on a byte string, for n >= 0.
Take(s, n) == SubSeq(s, 1, Min(n, Len(s)))
Drop(s, n) == SubSeq(s, n + 1, Len(s))

RECURSIVE Flatten(_)
Flatten(ss) == IF ss = <<>> THEN <<>> ELSE Head(ss) \o Flatten(Tail(ss))

\* str(n) for a non-negative integer.
DigitChar == <<"0","1","2","3","4","5","6","7","8","9">>
RECURSIVE IntToStr(_)
IntToStr(n) == IF n < 10 THEN <<DigitChar[n + 1]>>
               ELSE IntToStr(n \div 10) \o <<DigitChar[(n % 10) + 1]>>

\* str.startswith
startswith(s, p) == Len(s) >= Len(p) /\ SubSeq(s, 1, Len(p)) = p

\* str.capitalize on the ASCII names the model uses: first character upper
\* case, the rest lower case.
ToUpper(c) ==
  CASE c = "i" -> "I" [] c = "f" -> "F" [] c = "s" -> "S" [] c = "b" -> "B"
    [] c = "l" -> "L" [] c = "d" -> "D" [] c = "t" -> "T" [] OTHER -> c
ToLower(c) ==
  CASE c = "I" -> "i" [] c = "F" -> "f" [] c = "S" -> "s" [] c = "B" -> "b"
    [] c = "L" -> "l" [] c = "D" -> "d" [] c = "T" -> "t" [] OTHER -> c
capitalize(s) == [i \in DOMAIN s |-> IF i = 1 THEN ToUpper(s[i]) ELSE ToLower(s[i])]

(***************************************************************************)
(* Constants of mutations.py and schema.py.                                *)
(***************************************************************************)
_VAR_NAMES ==
  << <<"v","a","l">>, <<"a","r","g">>, <<"p","a","r","a","m">>, <<"i","t","e","m">>,
     <<"e","l","e","m">>, <<"d","a","t","a">>, <<"o","b","j">>, <<"t","m","p">>,
     <<"i","n","p">>, <<"r","e","s">>, <<"a","c","c">>, <<"c","u","r">>,
     <<"p","r","e","v">>, <<"n","x","t">>, <<"i","d","x">>, <<"c","n","t">> >>

_BUILTIN_TYPES ==
  { <<"i","n","t">>, <<"f","l","o","a","t">>, <<"s","t","r">>, <<"b","o","o","l">>,
    <<"l","i","s","t">>, <<"d","i","c","t">>, <<"s","e","t">>, <<"t","u","p","l","e">> }

\* MutationType: the value of each member, as text.
MutationType ==
  [ RENAME_VARIABLE |-> <<"r","e","n","a","m","e","_","v","a","r","i","a","b","l","e">>,
    REMOVE_TYPE_ANNOTATION |->
      <<"r","e","m","o","v","e","_","t","y","p","e","_","a","n","n","o","t","a","t","i","o","n">>,
    RENAME_USER_TYPE |-> <<"r","e","n","a","m","e","_","u","s","e","r","_","t","y","p","e">>,
    RENAME_BUILTIN_TYPE |->
      <<"r","e","n","a","m","e","_","b","u","i","l","t","i","n","_","t","y","p","e">> ]

SelfName == <<"s","e","l","f">>

(***************************************************************************)
(* The parser adapter.  tree_sitter is a library outside the repository;   *)
(* the model holds a corpus of valid programs, each given as its abstract  *)
(* syntax, and derives from that both the source text and the concrete     *)
(* syntax tree tree-sitter-python builds for it (anonymous tokens such as  *)
(* "def", "(", "->" and ":" are children too; whitespace is not a node).   *)
(***************************************************************************)
NoNodes == <<>>

\* A leaf node of the given type over the given text.
Leaf(type, text) ==
  [text |-> text,
   nodes |-> << [type |-> type, start |-> 0, end |-> Len(text), kids |-> <<>>,
                 parent |-> 0, field |-> ""] >>]

\* Text that belongs to no node (whitespace between tokens).
Gap(text) == [text |-> text, nodes |-> NoNodes]

Part(piece, field) == [p |-> piece, f |-> field]

RECURSIVE Assemble(_, _, _)
Assemble(parts, i, acc) ==
  IF i > Len(parts) THEN acc
  ELSE LET p == parts[i].p
           off == Len(acc.text)
           d == Len(acc.nodes) + 1
           moved == [k \in 1..Len(p.nodes) |->
                      LET n == p.nodes[k] IN
                      [type |-> n.type,
                       start |-> n.start + off,
                       end |-> n.end + off,
                       kids |-> [j \in 1..Len(n.kids) |-> n.kids[j] + d],
                       parent |-> IF k = 1 THEN 1 ELSE n.parent + d,
                       field |-> IF k = 1 THEN parts[i].f ELSE n.field]]
       IN Assemble(parts, i + 1,
                   [text |-> acc.text \o p.text,
                    nodes |-> acc.nodes \o moved,
                    kids |-> IF p.nodes = NoNodes THEN acc.kids
                             ELSE Append(acc.kids, d + 1)])

\* An inner node of the given type whose children are the parts, in order.
Mk(type, parts) ==
  LET a == Assemble(parts, 1, [text |-> <<>>, nodes |-> NoNodes, kids |-> <<>>])
  IN [text |-> a.text,
      nodes |-> << [type |-> type, start |-> 0, end |-> Len(a.text),
                    kids |-> a.kids, parent |-> 0, field |-> ""] >> \o a.nodes]

Ident(name) == Leaf("identifier", name)
TypeOf(name) == Mk("type", << Part(Ident(name), "") >>)
Sp == Gap(<<" ">>)

\* One parameter.  form is one of plain, typed, default, typed_default,
\* splat; a default value is the integer literal 0.
ParamPiece(q) ==
  CASE q.form = "plain" -> Ident(q.name)
    [] q.form = "typed" ->
         Mk("typed_parameter",
            << Part(Ident(q.name), ""), Part(Leaf(":", <<":">>), ""), Part(Sp, ""),
               Part(TypeOf(q.type), "type") >>)
    [] q.form = "default" ->
         Mk("default_parameter",
            << Part(Ident(q.name), "name"), Part(Leaf("=", <<"=">>), ""),
               Part(Leaf("integer", <<"0">>), "value") >>)
    [] q.form = "typed_default" ->
         Mk("typed_default_parameter",
            << Part(Ident(q.name), "name"), Part(Leaf(":", <<":">>), ""), Part(Sp, ""),
               Part(TypeOf(q.type), "type"), Part(Sp, ""), Part(Leaf("=", <<"=">>), ""),
               Part(Sp, ""), Part(Leaf("integer", <<"0">>), "value") >>)
    [] q.form = "splat" ->
         Mk("list_splat_pattern",
            << Part(Leaf("*", <<"*">>), ""), Part(Ident(q.name), "") >>)

RECURSIVE ParamParts(_, _)
ParamParts(ps, i) ==
  IF i > Len(ps) THEN <<>>
  ELSE (IF i = 1 THEN <<>> ELSE << Part(Leaf(",", <<",">>), ""), Part(Sp, "") >>)
       \o << Part(ParamPiece(ps[i]), "") >> \o ParamParts(ps, i + 1)

ParametersPiece(ps) ==
  Mk("parameters",
     << Part(Leaf("(", <<"(">>), "") >> \o ParamParts(ps, 1)
     \o << Part(Leaf(")", <<")">>), "") >>)

\* names[1] + names[2] + ... : binary_operator nests to the left.
RECURSIVE SumPiece(_, _)
SumPiece(names, n) ==
  IF n = 1 THEN Ident(names[1])
  ELSE Mk("binary_operator",
          << Part(SumPiece(names, n - 1), "left"), Part(Sp, ""),
             Part(Leaf("+", <<"+">>), "operator"), Part(Sp, ""),
             Part(Ident(names[n]), "right") >>)

\* def NAME(PARAMS) [-> RET]: return BODY
FuncPiece(f) ==
  Mk("function_definition",
     << Part(Leaf("def", <<"d","e","f">>), ""), Part(Sp, ""),
        Part(Ident(f.name), "name"), Part(ParametersPiece(f.params), "parameters") >>
     \o (IF f.ret = <<>> THEN <<>>
         ELSE << Part(Sp, ""), Part(Leaf("->", <<"-",">">>), ""), Part(Sp, ""),
                 Part(TypeOf(f.ret), "return_type") >>)
     \o << Part(Leaf(":", <<":">>), ""), Part(Sp, ""),
           Part(Mk("block",
                   << Part(Mk("return_statement",
                              << Part(Leaf("return", <<"r","e","t","u","r","n">>), ""),
                                 Part(Sp, ""),
                                 Part(SumPiece(f.body, Len(f.body)), "") >>), "") >>),
                "body") >>)

\* class NAME: pass
ClassPiece(c) ==
  Mk("class_definition",
     << Part(Leaf("class", <<"c","l","a","s","s">>), ""), Part(Sp, ""),
        Part(Ident(c.name), "name"), Part(Leaf(":", <<":">>), ""), Part(Sp, ""),
        Part(Mk("block",
                << Part(Mk("pass_statement",
                           << Part(Leaf("pass", <<"p","a","s","s">>), "") >>), "") >>),
             "body") >>)

DefPiece(d) == IF d.kind = "def" THEN FuncPiece(d) ELSE ClassPiece(d)

RECURSIVE DefParts(_, _)
DefParts(ds, i) ==
  IF i > Len(ds) THEN <<>>
  ELSE << Part(DefPiece(ds[i]), ""), Part(Gap(<<"\n">>), "") >> \o DefParts(ds, i + 1)

ModulePiece(ds) == Mk("module", DefParts(ds, 1))

Tree(piece) == [src |-> piece.text, nodes |-> piece.nodes]
P(form, name, type) == [form |-> form, name |-> name, type |-> type]
Def(name, params, ret, body) ==
  [kind |-> "def", name |-> name, params |-> params, ret |-> ret, body |-> body]
Class(name) == [kind |-> "class", name |-> name]

n_int == <<"i","n","t">>
n_val == <<"v","a","l">>

\* def add(a, b): return a + b
P_add == << Def(<<"a","d","d">>, << P("plain", <<"a">>, <<>>), P("plain", <<"b">>, <<>>) >>,
                <<>>, << <<"a">>, <<"b">> >>) >>
\* def add(a: int, b: int) -> int: return a + b
P_typed == << Def(<<"a","d","d">>, << P("typed", <<"a">>, n_int), P("typed", <<"b">>, n_int) >>,
                  n_int, << <<"a">>, <<"b">> >>) >>
\* def inc(a=0): return a
P_inc == << Def(<<"i","n","c">>, << P("default", <<"a">>, <<>>) >>, <<>>, << <<"a">> >>) >>
\* def f(a): return a
\* def g(a, val): return a + val
P_two == << Def(<<"f">>, << P("plain", <<"a">>, <<>>) >>, <<>>, << <<"a">> >>),
            Def(<<"g">>, << P("plain", <<"a">>, <<>>), P("plain", n_val, <<>>) >>,
                <<>>, << <<"a">>, n_val >>) >>
\* class C: pass
\* def get(self, k: int) -> C: return self + k
P_cls == << Class(<<"C">>),
            Def(<<"g","e","t">>, << P("plain", SelfName, <<>>), P("typed", <<"k">>, n_int) >>,
                <<"C">>, << SelfName, <<"k">> >>) >>
\* class My: pass
P_my == << Class(<<"M","y">>) >>
\* def set(list: int): return list
P_set == << Def(<<"s","e","t">>, << P("typed", <<"l","i","s","t">>, n_int) >>, <<>>, << <<"l","i","s","t">> >>) >>
\* def h(*a, b: int = 0) -> str: return a + b
P_star == << Def(<<"h">>, << P("splat", <<"a">>, <<>>), P("typed_default", <<"b">>, n_int) >>,
                 <<"s","t","r">>, << <<"a">>, <<"b">> >>) >>

\* The corpus: every program the model parses, as source text and tree.
\* def f(self: int, a: int): return a
\* def g(b) -> int: return b
P_pair == << Def(<<"f">>, << P("typed", SelfName, n_int), P("typed", <<"a">>, n_int) >>,
                 <<>>, << <<"a">> >>),
             Def(<<"g">>, << P("plain", <<"b">>, <<>>) >>, n_int, << <<"b">> >>) >>

Programs == << P_add, P_typed, P_inc, P_two, P_cls, P_my, P_set, P_star, P_pair >>
Corpus == [i \in DOMAIN Programs |-> Tree(ModulePiece(Programs[i]))]
CorpusSet == {Corpus[i] : i \in DOMAIN Corpus}

\* A code point that str.encode("utf-8") refuses: a lone surrogate.
Surrogate == "\\udc80"

\* parse_python, line 25: source.encode raises UnicodeEncodeError.
encode_raises(source) == \E i \in DOMAIN source : source[i] = Surrogate

\* parse_python: the tree of a source text of the corpus.
parse_python(source) == CHOOSE t \in CorpusSet : t.src = source

(***************************************************************************)
(* Node accessors of the tree-sitter API.                                  *)
(***************************************************************************)
NodeText(tree, n) == SubSeq(tree.src, tree.nodes[n].start + 1, tree.nodes[n].end)

\* Node.child_by_field_name: the first child with that field name, 0 for None.
child_by_field_name(tree, n, f) ==
  LET ks == tree.nodes[n].kids
      hit == {j \in 1..Len(ks) : tree.nodes[ks[j]].field = f}
  IN IF hit = {} THEN 0
     ELSE ks[CHOOSE j \in hit : \A k \in hit : j <= k]

(***************************************************************************)
(* random.Random: a deterministic generator; its state is one integer.     *)
(* choice(seq) advances the state and picks by the new state.              *)
(***************************************************************************)
Random(seed) == seed
RngStep(rng) == (rng * 75 + 74) % 65537
choice(rng, seq) ==
  [val |-> seq[(RngStep(rng) % Len(seq)) + 1], rng |-> RngStep(rng)]

(***************************************************************************)
(* mutations.py: the tree query and the span rewrite engine.               *)
(***************************************************************************)
RECURSIVE CollectKids(_, _, _, _)
RECURSIVE _collect_nodes(_, _, _)

\* A variant that does not look below a node of the type.
_collect_nodes_StopAtMatch(tree, n, type_name) ==
  IF tree.nodes[n].type = type_name THEN <<n>>
  ELSE CollectKids(tree, tree.nodes[n].kids, 1, type_name)

\* _collect_nodes, lines 37-44: the node itself if it has the type, then what
\* each child gives, children from left to right.
_collect_nodes(tree, n, type_name) ==
  (IF tree.nodes[n].type = type_name THEN <<n>> ELSE <<>>)
  \o CollectKids(tree, tree.nodes[n].kids, 1, type_name)
CollectKids(tree, ks, i, type_name) ==
  IF i > Len(ks) THEN <<>>
  ELSE _collect_nodes(tree, ks[i], type_name) \o CollectKids(tree, ks, i + 1, type_name)

Span(start, end, text) == [start |-> start, end |-> end, text |-> text]

\* sorted(replacements, key=lambda r: r[0], reverse=True): a stable sort, which
\* keeps the given order among spans with the same start.
RECURSIVE InsertByStart(_, _)
InsertByStart(sorted, r) ==
  IF sorted = <<>> THEN <<r>>
  ELSE IF Head(sorted).start >= r.start
       THEN <<Head(sorted)>> \o InsertByStart(Tail(sorted), r)
       ELSE <<r>> \o sorted

RECURSIVE SortedByStartDesc(_)
SortedByStartDesc(replacements) ==
  IF replacements = <<>> THEN <<>>
  ELSE InsertByStart(SortedByStartDesc(SubSeq(replacements, 1, Len(replacements) - 1)),
                     replacements[Len(replacements)])

RECURSIVE ApplySpans(_, _)
ApplySpans(source_bytes, spans) ==
  IF spans = <<>> THEN source_bytes
  ELSE LET r == Head(spans) IN
       ApplySpans(Take(source_bytes, r.start) \o r.text \o Drop(source_bytes, r.end),
                  Tail(spans))

_replace_ranges(source, replacements) ==
  ApplySpans(source, SortedByStartDesc(replacements))

(***************************************************************************)
(* schema.py: MutationRecord.  A missing location (None) is NoLocation.    *)
(***************************************************************************)
NoLocation == << "None" >>
MutationRecord(mutation_type, original, replacement, location) ==
  [mutation_type |-> mutation_type, original |-> original,
   replacement |-> replacement, location |-> location]

\* What apply returns, with the generator as apply leaves it.
Applied(code, records, rng) == [code |-> code, records |-> records, rng |-> rng]

\* A variant that takes end_byte for the offset of the last byte of the node.
NodeSpan_Inclusive(tree, n, text) ==
  Span(tree.nodes[n].start, tree.nodes[n].end + 1, text)

NodeSpan(tree, n, text) == Span(tree.nodes[n].start, tree.nodes[n].end, text)

\* What an apply has worked out when it returns: whether it handed a span
\* list to _replace_ranges and which, the text it puts in front of the result,
\* its records, the generator as it leaves it, and the nodes it chose.
Plan(handed, replacements, records, rng, chosen) ==
  [handed |-> handed, prefix |-> <<>>, replacements |-> replacements,
   records |-> records, rng |-> rng, chosen |-> chosen]

\* An early "return source, records".
NoMutation(records, rng, chosen) == Plan(FALSE, <<>>, records, rng, chosen)

\* "mutated = _replace_ranges(source, replacements)" and the return.
Finish(source, plan) ==
  Applied(IF plan.handed
          THEN plan.prefix \o _replace_ranges(source, plan.replacements)
          ELSE source,
          plan.records, plan.rng)

(***************************************************************************)
(* RenameVariableOperator.apply                                            *)
(***************************************************************************)
\* The parameter identifiers of a parameters node, self skipped: a bare
\* identifier child, or the first child of a typed_parameter child (a
\* typed_parameter has no field called name).
RECURSIVE ParamIds(_, _, _)
ParamIds(tree, ks, i) ==
  IF i > Len(ks) THEN <<>>
  ELSE LET child == ks[i]
           name_node == IF child_by_field_name(tree, child, "name") # 0
                        THEN child_by_field_name(tree, child, "name")
                        ELSE tree.nodes[child].kids[1]
           here == IF tree.nodes[child].type = "identifier"
                      /\ NodeText(tree, child) # SelfName
                   THEN <<child>>
                   ELSE IF tree.nodes[child].type = "typed_parameter"
                           /\ tree.nodes[name_node].type = "identifier"
                           /\ NodeText(tree, name_node) # SelfName
                        THEN <<name_node>>
                        ELSE <<>>
       IN here \o ParamIds(tree, ks, i + 1)

\* A variant that chooses among all the names, the old one included.
NewNamePool_Whole(old_name) == _VAR_NAMES

\* [n for n in _VAR_NAMES if n != old_name] or _VAR_NAMES
NewNamePool(old_name) ==
  LET others == SelectSeq(_VAR_NAMES, LAMBDA n : n # old_name)
  IN IF others = <<>> THEN _VAR_NAMES ELSE others

\* A variant that leaves the declaration of the parameter out.
RenameSpans_BodyOnly(tree, target, refs, new_name) ==
  [k \in 1..Len(refs) |-> NodeSpan(tree, refs[k], new_name)]

\* A variant that lists the declaration of the parameter twice.
RenameSpans_TargetTwice(tree, target, refs, new_name) ==
  << NodeSpan(tree, target, new_name), NodeSpan(tree, target, new_name) >>
  \o [k \in 1..Len(refs) |-> NodeSpan(tree, refs[k], new_name)]

RenameSpans(tree, target, refs, new_name) ==
  << NodeSpan(tree, target, new_name) >>
  \o [k \in 1..Len(refs) |-> NodeSpan(tree, refs[k], new_name)]

\* The nodes apply picks on its way; 0 and <<>> for what it did not reach.
Chosen(func_node, param_ids, target, refs) ==
  [func_node |-> func_node, param_ids |-> param_ids, target |-> target, refs |-> refs]

RenameVariablePlan(tree, rng) ==
  LET func_nodes == _collect_nodes(tree, 1, "function_definition") IN
  IF func_nodes = <<>> THEN NoMutation(<<>>, rng, Chosen(0, <<>>, 0, <<>>))
  ELSE
  LET c1 == choice(rng, func_nodes)
      func_node == c1.val
      params_node == child_by_field_name(tree, func_node, "parameters")
  IN
  IF params_node = 0 THEN NoMutation(<<>>, c1.rng, Chosen(func_node, <<>>, 0, <<>>))
  ELSE
  LET param_ids == ParamIds(tree, tree.nodes[params_node].kids, 1) IN
  IF param_ids = <<>> THEN NoMutation(<<>>, c1.rng, Chosen(func_node, <<>>, 0, <<>>))
  ELSE
  LET c2 == choice(c1.rng, param_ids)
      target == c2.val
      old_name == NodeText(tree, target)
      c3 == choice(c2.rng, NewNamePool(old_name))
      new_name == c3.val
      body_node == child_by_field_name(tree, func_node, "body")
  IN
  IF body_node = 0
  THEN NoMutation(<<>>, c3.rng, Chosen(func_node, param_ids, target, <<>>))
  ELSE
  LET refs == SelectSeq(_collect_nodes(tree, body_node, "identifier"),
                        LAMBDA r : NodeText(tree, r) = old_name)
      replacements == RenameSpans(tree, target, refs, new_name)
      fname == child_by_field_name(tree, func_node, "name")
  IN Plan(TRUE, replacements,
          << MutationRecord(MutationType.RENAME_VARIABLE, old_name, new_name,
                            <<"f","u","n","c","t","i","o","n",":">>
                            \o (IF fname # 0 THEN NodeText(tree, fname) ELSE <<"?">>)) >>,
          c3.rng, Chosen(func_node, param_ids, target, refs))

RenameVariableOperator_apply(source, tree, rng) ==
  Finish(source, RenameVariablePlan(tree, rng))

(***************************************************************************)
(* RemoveTypeAnnotationOperator.apply                                      *)
(***************************************************************************)
\* The replacements and the records one pass of the operator appends.
\* A variant that appends the replacement and forgets the record.
Edits_NoRecords(replacements, records) == [replacements |-> replacements, records |-> <<>>]

Edits(replacements, records) == [replacements |-> replacements, records |-> records]

\* The first child of type "->", 0 for None.
ArrowNode(tree, func_node) ==
  LET ks == tree.nodes[func_node].kids
      hit == {j \in 1..Len(ks) : tree.nodes[ks[j]].type = "->"}
  IN IF hit = {} THEN 0 ELSE ks[CHOOSE j \in hit : \A k \in hit : j <= k]

\* A variant that leaves every return annotation in place.
ReturnEdits_Kept(tree, func_node) == Edits(<<>>, <<>>)

\* The return annotation of one function: the loop over the children stops at
\* the first "->" (or at the return type itself) and removes from the first
\* "->" to the end of the return type.
ReturnEdits(tree, func_node) ==
  LET return_type == child_by_field_name(tree, func_node, "return_type")
      ks == tree.nodes[func_node].kids
      found == \E j \in 1..Len(ks) :
                  \/ tree.nodes[ks[j]].type = "->"
                  \/ (tree.nodes[ks[j]].type = "type" /\ ks[j] = return_type)
      arrow_node == ArrowNode(tree, func_node)
  IN IF return_type # 0 /\ found /\ arrow_node # 0
     THEN Edits(<< Span(tree.nodes[arrow_node].start, tree.nodes[return_type].end, <<>>) >>,
                << MutationRecord(MutationType.REMOVE_TYPE_ANNOTATION,
                                  <<"-",">"," ">> \o NodeText(tree, return_type), <<>>,
                                  <<"r","e","t","u","r","n","_","t","y","p","e">>) >>)
     ELSE Edits(<<>>, <<>>)

RECURSIVE TypedParamEdits(_, _, _)
TypedParamEdits(tree, typed_params, i) ==
  IF i > Len(typed_params) THEN Edits(<<>>, <<>>)
  ELSE LET tp == typed_params[i]
           rest == TypedParamEdits(tree, typed_params, i + 1)
           name_node == IF tree.nodes[tp].kids # <<>> THEN tree.nodes[tp].kids[1] ELSE 0
           param_name == NodeText(tree, name_node)
       IN IF name_node = 0 \/ param_name = SelfName THEN rest
          ELSE Edits(<< NodeSpan(tree, tp, param_name) >> \o rest.replacements,
                     << MutationRecord(MutationType.REMOVE_TYPE_ANNOTATION,
                                       NodeText(tree, tp), param_name,
                                       <<"p","a","r","a","m","e","t","e","r">>) >> \o rest.records)

RECURSIVE AnnotationEdits(_, _, _)
AnnotationEdits(tree, func_nodes, i) ==
  IF i > Len(func_nodes) THEN Edits(<<>>, <<>>)
  ELSE LET func_node == func_nodes[i]
           ret == ReturnEdits(tree, func_node)
           params_node == child_by_field_name(tree, func_node, "parameters")
           par == IF params_node = 0 THEN Edits(<<>>, <<>>)
                  ELSE TypedParamEdits(tree,
                         _collect_nodes(tree, params_node, "typed_parameter"), 1)
           rest == AnnotationEdits(tree, func_nodes, i + 1)
       IN Edits(ret.replacements \o par.replacements \o rest.replacements,
                ret.records \o par.records \o rest.records)

RemoveTypeAnnotationPlan(tree, rng) ==
  LET func_nodes == _collect_nodes(tree, 1, "function_definition") IN
  IF func_nodes = <<>> THEN NoMutation(<<>>, rng, <<>>)
  ELSE
  LET e == AnnotationEdits(tree, func_nodes, 1) IN
  IF e.replacements = <<>> THEN NoMutation(e.records, rng, func_nodes)
  ELSE Plan(TRUE, e.replacements, e.records, rng, func_nodes)

RemoveTypeAnnotationOperator_apply(source, tree, rng) ==
  Finish(source, RemoveTypeAnnotationPlan(tree, rng))

(***************************************************************************)
(* RenameUserTypeOperator.apply                                            *)
(***************************************************************************)
\* A variant that takes the prefix off a name that has it.
UserTypeNewName_Toggle(old_name) ==
  IF ~startswith(old_name, <<"M","y">>) THEN <<"M","y">> \o old_name
  ELSE Drop(old_name, 2)

UserTypeNewName(old_name) ==
  IF ~startswith(old_name, <<"M","y">>) THEN <<"M","y">> \o old_name
  ELSE old_name \o <<"V","2">>

RenameUserTypePlan(tree, rng) ==
  LET class_nodes == _collect_nodes(tree, 1, "class_definition") IN
  IF class_nodes = <<>> THEN NoMutation(<<>>, rng, Chosen(0, <<>>, 0, <<>>))
  ELSE
  LET c1 == choice(rng, class_nodes)
      target_class == c1.val
      name_node == child_by_field_name(tree, target_class, "name")
  IN
  IF name_node = 0 THEN NoMutation(<<>>, c1.rng, Chosen(target_class, <<>>, 0, <<>>))
  ELSE
  LET old_name == NodeText(tree, name_node)
      new_name == UserTypeNewName(old_name)
      refs == SelectSeq(_collect_nodes(tree, 1, "identifier"),
                        LAMBDA n : NodeText(tree, n) = old_name)
      replacements == [k \in 1..Len(refs) |-> NodeSpan(tree, refs[k], new_name)]
  IN Plan(TRUE, replacements,
          << MutationRecord(MutationType.RENAME_USER_TYPE, old_name, new_name,
                            NoLocation) >>,
          c1.rng, Chosen(target_class, <<>>, name_node, refs))

RenameUserTypeOperator_apply(source, tree, rng) ==
  Finish(source, RenameUserTypePlan(tree, rng))

(***************************************************************************)
(* RenameBuiltinTypeOperator.apply                                         *)
(***************************************************************************)
\* A variant that looks no further up than the grandparent.
_is_annotation_context_TwoLevels(tree, node) ==
  /\ tree.nodes[node].parent # 0
  /\ \/ tree.nodes[tree.nodes[node].parent].type
          \in {"type", "typed_parameter", "function_definition"}
     \/ /\ tree.nodes[tree.nodes[node].parent].type = "subscript"
        /\ tree.nodes[tree.nodes[node].parent].parent # 0
        /\ tree.nodes[tree.nodes[tree.nodes[node].parent].parent].type
             \in {"type", "typed_parameter"}

RECURSIVE _is_annotation_context(_, _)
_is_annotation_context(tree, node) ==
  LET parent == tree.nodes[node].parent
      ptype == tree.nodes[parent].type
      grand == tree.nodes[parent].parent
  IN IF parent = 0 THEN FALSE
     ELSE IF ptype \in {"type", "typed_parameter", "function_definition"} THEN TRUE
     ELSE IF ptype = "subscript" /\ grand # 0
             /\ tree.nodes[grand].type \in {"type", "typed_parameter"} THEN TRUE
     ELSE IF ptype \in {"subscript", "attribute"}
          THEN _is_annotation_context(tree, parent)
          ELSE FALSE

\* A variant that binds the type to the alias.
AliasLine_Reversed(alias_name, old_type) ==
  old_type \o <<" ","="," ">> \o alias_name \o <<"\n">>

\* alias_line = f"{alias_name} = {old_type}\n"
AliasLine(alias_name, old_type) ==
  alias_name \o <<" ","="," ">> \o old_type \o <<"\n">>

RenameBuiltinTypePlan(tree, rng) ==
  LET all_ids == _collect_nodes(tree, 1, "identifier")
      builtin_refs == SelectSeq(all_ids,
                        LAMBDA n : NodeText(tree, n) \in _BUILTIN_TYPES
                                   /\ _is_annotation_context(tree, n))
  IN
  IF builtin_refs = <<>> THEN NoMutation(<<>>, rng, Chosen(0, <<>>, 0, <<>>))
  ELSE
  LET c1 == choice(rng, builtin_refs)
      target == c1.val
      old_type == NodeText(tree, target)
      alias_name == <<"M","y">> \o capitalize(old_type)
      refs == SelectSeq(builtin_refs, LAMBDA n : NodeText(tree, n) = old_type)
      alias_line == AliasLine(alias_name, old_type)
      replacements == [k \in 1..Len(refs) |-> NodeSpan(tree, refs[k], alias_name)]
  IN [ Plan(TRUE, replacements,
            << MutationRecord(MutationType.RENAME_BUILTIN_TYPE, old_type, alias_name,
                              NoLocation) >>,
            c1.rng, Chosen(0, builtin_refs, target, refs))
       EXCEPT !.prefix = alias_line ]

RenameBuiltinTypeOperator_apply(source, tree, rng) ==
  Finish(source, RenameBuiltinTypePlan(tree, rng))

\* OPERATOR_REGISTRY: the registered names, and apply of the operator a name
\* stands for.
OPERATOR_REGISTRY ==
  {"rename_variable", "remove_type_annotation", "rename_user_type", "rename_builtin_type"}

\* What the operator a name stands for works out on a tree.
PlanOf(op, tree, rng) ==
  CASE op = "rename_variable" -> RenameVariablePlan(tree, rng)
    [] op = "remove_type_annotation" -> RemoveTypeAnnotationPlan(tree, rng)
    [] op = "rename_user_type" -> RenameUserTypePlan(tree, rng)
    [] op = "rename_builtin_type" -> RenameBuiltinTypePlan(tree, rng)

apply(op, source, tree, rng) ==
  CASE op = "rename_variable" -> RenameVariableOperator_apply(source, tree, rng)
    [] op = "remove_type_annotation" -> RemoveTypeAnnotationOperator_apply(source, tree, rng)
    [] op = "rename_user_type" -> RenameUserTypeOperator_apply(source, tree, rng)
    [] op = "rename_builtin_type" -> RenameBuiltinTypeOperator_apply(source, tree, rng)

(***************************************************************************)
(* ast.parse, as validate.py and the tests use it to decide whether a text *)
(* is a valid program: a recogniser of the language of the corpus.         *)
(*   program   ::= statement*                                              *)
(*   statement ::= "def" NAME "(" params ")" ["->" NAME] ":" "return" sum NL*)
(*               | "class" NAME ":" "pass" NL  |  NAME "=" NAME NL         *)
(*   param     ::= "*" NAME [":" NAME] | NAME [":" NAME] ["=" (NAME|NUM)]  *)
(*   sum       ::= NAME ("+" NAME)*                                        *)
(* A line may not start with a space (unexpected indent) unless it is      *)
(* blank; blank lines are skipped.                                         *)
(***************************************************************************)
Keywords == { <<"d","e","f">>, <<"c","l","a","s","s">>, <<"r","e","t","u","r","n">>, <<"p","a","s","s">> }
Punctuation == {"(", ")", ",", ":", "=", "+", "*"}

Token(kind, text) == [k |-> kind, t |-> text]

\* The end of the run of word characters that starts at i.
RECURSIVE WordEnd(_, _)
WordEnd(buf, i) ==
  IF i < Len(buf) /\ buf[i + 1] \in WordChar THEN WordEnd(buf, i + 1) ELSE i

\* The first index from i on that does not hold a space.
RECURSIVE SpaceEnd(_, _)
SpaceEnd(buf, i) ==
  IF i <= Len(buf) /\ buf[i] = " " THEN SpaceEnd(buf, i + 1) ELSE i

\* A line of spaces only is dropped; other lines may not start with a space.
RECURSIVE Tokenize(_, _)
Tokenize(buf, i) ==
  IF i > Len(buf) THEN <<>>
  ELSE LET c == buf[i]
           blank == SpaceEnd(buf, i) IN
       IF (i = 1 \/ buf[i - 1] = "\n") /\ (blank > Len(buf) \/ buf[blank] = "\n")
       THEN Tokenize(buf, blank + 1)
       ELSE IF c = " "
       THEN IF i = 1 \/ buf[i - 1] = "\n" THEN << Token("bad", <<c>>) >>
            ELSE Tokenize(buf, i + 1)
       ELSE IF c \in WordChar
       THEN LET e == WordEnd(buf, i) IN
            << Token(IF c \in Digit THEN "num" ELSE "word", SubSeq(buf, i, e)) >>
            \o Tokenize(buf, e + 1)
       ELSE IF c = "-" /\ i < Len(buf) /\ buf[i + 1] = ">"
       THEN << Token("->", <<"-", ">">>) >> \o Tokenize(buf, i + 2)
       ELSE IF c = "\n" THEN << Token("nl", <<c>>) >> \o Tokenize(buf, i + 1)
       ELSE IF c \in Punctuation THEN << Token(c, <<c>>) >> \o Tokenize(buf, i + 1)
       ELSE << Token("bad", <<c>>) >>

IsP(ts, i, kind) == i >= 1 /\ i <= Len(ts) /\ ts[i].k = kind
IsKw(ts, i, w) == IsP(ts, i, "word") /\ ts[i].t = w
IsName(ts, i) == IsP(ts, i, "word") /\ ts[i].t \notin Keywords

\* Each ...End is the index after the phrase that starts at i, 0 if none does.
AnnotEnd(ts, i) ==
  IF IsP(ts, i, ":") THEN (IF IsName(ts, i + 1) THEN i + 2 ELSE 0) ELSE i
DefaultEnd(ts, i) ==
  IF i = 0 THEN 0
  ELSE IF IsP(ts, i, "=")
       THEN (IF IsName(ts, i + 1) \/ IsP(ts, i + 1, "num") THEN i + 2 ELSE 0)
       ELSE i
ParamEnd(ts, i) ==
  IF IsP(ts, i, "*") THEN (IF IsName(ts, i + 1) THEN AnnotEnd(ts, i + 2) ELSE 0)
  ELSE IF IsName(ts, i) THEN DefaultEnd(ts, AnnotEnd(ts, i + 1)) ELSE 0

\* After the parameter that ends at e: a comma and more, or the ")".
RECURSIVE ParamsEnd(_, _)
AfterParam(ts, e) ==
  IF e = 0 THEN 0
  ELSE IF IsP(ts, e, ",") THEN ParamsEnd(ts, e + 1)
  ELSE IF IsP(ts, e, ")") THEN e + 1 ELSE 0

ParamsEnd(ts, i) ==
  IF IsP(ts, i, ")") THEN i + 1 ELSE AfterParam(ts, ParamEnd(ts, i))

RECURSIVE SumEnd(_, _)
SumEnd(ts, i) ==
  IF IsName(ts, i)
  THEN (IF IsP(ts, i + 1, "+") THEN SumEnd(ts, i + 2) ELSE i + 1)
  ELSE 0

\* The return annotation after the parameters that end at p, if any.
ReturnsEnd(ts, p) ==
  IF p = 0 THEN 0
  ELSE IF IsP(ts, p, "->") THEN (IF IsName(ts, p + 1) THEN p + 2 ELSE 0)
  ELSE p

\* ":" "return" sum NL from r on.
BodyEnd(ts, r) ==
  IF r # 0 /\ IsP(ts, r, ":") /\ IsKw(ts, r + 1, <<"r","e","t","u","r","n">>)
  THEN SumEnd(ts, r + 2) ELSE 0

LineEnd(ts, s) == IF s # 0 /\ IsP(ts, s, "nl") THEN s + 1 ELSE 0

DefEnd(ts, i) ==
  IF ~(IsKw(ts, i, <<"d","e","f">>) /\ IsName(ts, i + 1) /\ IsP(ts, i + 2, "(")) THEN 0
  ELSE LineEnd(ts, BodyEnd(ts, ReturnsEnd(ts, ParamsEnd(ts, i + 3))))

ClassEnd(ts, i) ==
  IF IsKw(ts, i, <<"c","l","a","s","s">>) /\ IsName(ts, i + 1) /\ IsP(ts, i + 2, ":")
     /\ IsKw(ts, i + 3, <<"p","a","s","s">>) /\ IsP(ts, i + 4, "nl")
  THEN i + 5 ELSE 0

AssignEnd(ts, i) ==
  IF IsName(ts, i) /\ IsP(ts, i + 1, "=") /\ IsName(ts, i + 2) /\ IsP(ts, i + 3, "nl")
  THEN i + 4 ELSE 0

StatementEnd(ts, i) ==
  IF DefEnd(ts, i) # 0 THEN DefEnd(ts, i)
  ELSE IF ClassEnd(ts, i) # 0 THEN ClassEnd(ts, i)
  ELSE AssignEnd(ts, i)

RECURSIVE StatementsOk(_, _)
StatementsOk(ts, i) ==
  i > Len(ts) \/ (StatementEnd(ts, i) # 0 /\ StatementsOk(ts, StatementEnd(ts, i)))

\* The end of the text ends its last line.
EndLine(ts) ==
  IF ts # <<>> /\ ts[Len(ts)].k # "nl" THEN Append(ts, Token("nl", << "\n" >>))
  ELSE ts

Recognised(ts) == (\A i \in 1..Len(ts) : ts[i].k # "bad") /\ StatementsOk(ts, 1)

ast_parse(buf) == Recognised(EndLine(Tokenize(buf, 1)))

(***************************************************************************)
(* phase1/schema.py MBPPEntry and phase2/schema.py MutatedEntry.           *)
(***************************************************************************)
MBPPEntry(task_id, text, code, test_list) ==
  [task_id |-> task_id, text |-> text, code |-> code, test_list |-> test_list,
   test_setup_code |-> "", challenge_test_list |-> <<>>]

\* A variant that does not pass the records on: mutations_applied keeps its
\* default, the empty list.
from_mbpp_entry_NoMutations(entry, mutated_code, mutation_id, mutations) ==
  [original_task_id |-> entry.task_id,
   mutation_id |-> mutation_id,
   text |-> entry.text,
   original_code |-> entry.code,
   mutated_code |-> mutated_code,
   test_list |-> entry.test_list,
   test_setup_code |-> entry.test_setup_code,
   challenge_test_list |-> entry.challenge_test_list,
   mutations_applied |-> <<>>,
   tests_pass_on_mutated |-> "None"]

\* A variant that records the mutated source as the original one.
from_mbpp_entry_SwappedCode(entry, mutated_code, mutation_id, mutations) ==
  [original_task_id |-> entry.task_id,
   mutation_id |-> mutation_id,
   text |-> entry.text,
   original_code |-> mutated_code,
   mutated_code |-> mutated_code,
   test_list |-> entry.test_list,
   test_setup_code |-> entry.test_setup_code,
   challenge_test_list |-> entry.challenge_test_list,
   mutations_applied |-> mutations,
   tests_pass_on_mutated |-> "None"]

\* MutatedEntry.from_mbpp_entry; tests_pass_on_mutated defaults to None.
from_mbpp_entry(entry, mutated_code, mutation_id, mutations) ==
  [original_task_id |-> entry.task_id,
   mutation_id |-> mutation_id,
   text |-> entry.text,
   original_code |-> entry.code,
   mutated_code |-> mutated_code,
   test_list |-> entry.test_list,
   test_setup_code |-> entry.test_setup_code,
   challenge_test_list |-> entry.challenge_test_list,
   mutations_applied |-> mutations,
   tests_pass_on_mutated |-> "None"]

\* The entries a run may be handed: the first of the integration test, one with
\* a class and an annotated method, one whose only parameter has a default
\* value.
EntryPool ==
  { MBPPEntry(1, "Add two numbers.", Corpus[1].src, << "assert add(1, 2) == 3" >>),
    MBPPEntry(2, "Get.", Corpus[5].src, << "assert C" >>),
    MBPPEntry(3, "Increment.", Corpus[3].src, << "assert inc(1) == 1" >>) }

\* The seeds a run may be handed; 42 is the default of Phase2Config.
Seeds == {0, 42}

\* The operator-name lists a run may be configured with: those of the tests,
\* the default of Phase2Config, a repeated operator, unknown names.
OperatorConfigs ==
  { << "rename_variable" >>,
    << "rename_variable", "remove_type_annotation" >>,
    << "rename_variable", "remove_type_annotation", "rename_user_type",
       "rename_builtin_type" >>,
    << "remove_type_annotation", "rename_variable", "rename_variable" >>,
    << "shuffle_lines", "rename_builtin_type" >>,
    << "shuffle_lines" >> }

RECURSIVE SeqsUpTo(_, _)
SeqsUpTo(Pool, n) ==
  IF n = 0 THEN { <<>> }
  ELSE LET shorter == SeqsUpTo(Pool, n - 1)
       IN shorter \cup { Append(s, x) : s \in shorter, x \in Pool }

(***************************************************************************)
(* phase1/validate.py.  str.strip removes white space from both ends;      *)
(* ast.parse returns, raises SyntaxError for a text that is not a program, *)
(* or raises UnicodeEncodeError for a text that has no UTF-8 encoding.     *)
(***************************************************************************)
Whitespace == {" ", "\n", "\t"}

RECURSIVE lstrip(_)
lstrip(s) == IF s # <<>> /\ Head(s) \in Whitespace THEN lstrip(Tail(s)) ELSE s

RECURSIVE rstrip(_)
rstrip(s) ==
  IF s # <<>> /\ s[Len(s)] \in Whitespace THEN rstrip(SubSeq(s, 1, Len(s) - 1))
  ELSE s

strip(s) == rstrip(lstrip(s))

ast_parse_outcome(buf) ==
  IF encode_raises(buf) THEN "UnicodeEncodeError"
  ELSE IF ast_parse(buf) THEN "ok" ELSE "SyntaxError"

\* One round of the loop of lines 33-38: the first failure ends it.
FirstFailure(parsed, rest) == IF parsed = "ok" THEN rest ELSE parsed

\* The outcome of the loop over the tests from index i on: "ok",
\* "SyntaxError" at the first test that is not a program, or the exception
\* that ast.parse raised and no handler caught.
RECURSIVE TestsOutcome(_, _)
TestsOutcome(test_list, i) ==
  IF i > Len(test_list) THEN "ok"
  ELSE FirstFailure(ast_parse_outcome(test_list[i]), TestsOutcome(test_list, i + 1))

\* Only SyntaxError is caught (lines 25 and 36); any other exception leaves
\* validate_entry.
OnOutcome(parsed, rest) ==
  IF parsed = "SyntaxError" THEN "False"
  ELSE IF parsed # "ok" THEN parsed
  ELSE rest

\* Lines 23-40 of validate_entry, for an entry whose code has the outcome
\* `parsed`.
ValidateParsed(entry, parsed) ==
  OnOutcome(parsed,
            IF entry.test_list = <<>> THEN "False"
            ELSE OnOutcome(TestsOutcome(entry.test_list, 1), "True"))

\* validate_entry: "True", "False", or the name of the exception that leaves
\* it.
validate_entry(entry) ==
  IF strip(entry.text) = <<>> THEN "False"
  ELSE IF strip(entry.code) = <<>> THEN "False"
  ELSE ValidateParsed(entry, ast_parse_outcome(entry.code))

\* load_and_validate: the list comprehension of line 45 stops at the first
\* entry on which validate_entry raises, and then nothing is returned.
Filtered(entries, verdict) ==
  IF \E i \in DOMAIN entries : verdict[i] \notin {"True", "False"}
  THEN [kind |-> "raise", valid |-> <<>>]
  ELSE [kind |-> "return",
        valid |-> Flatten([i \in DOMAIN entries |->
                             IF verdict[i] = "True" THEN << entries[i] >> ELSE <<>>])]

load_and_validate(entries) ==
  Filtered(entries, [i \in DOMAIN entries |-> validate_entry(entries[i])])

(***************************************************************************)
(* adversarial.py: the oracle.  safe_exec runs the mutated code and the    *)
(* tests in a subprocess; what the subprocess does is outside the program, *)
(* so its outcome is any of: exit code 0, a non-zero exit code, a timeout, *)
(* a failure to run it.                                                    *)
(***************************************************************************)
ExecOutcomes == {"exit0", "nonzero", "timeout", "error"}

\* What subprocess.run meets: a process that completed with a return code and
\* some output, one that outlived the timeout, one that could not be run.
ProcessResult(kind, returncode, stdout, stderr) ==
  [kind |-> kind, returncode |-> returncode, stdout |-> stdout, stderr |-> stderr]
ProcessResults ==
  { ProcessResult("completed", c, o, e) :
      c \in 0..MaxReturnCode, o \in {"", "ok"}, e \in {"", "AssertionError"} }
  \cup { ProcessResult("timeout", -1, "", ""), ProcessResult("error", -1, "", "") }

\* A variant that takes every completed run for a run that exited with 0.
ExecOutcome_AnyExit(proc) ==
  CASE proc.kind = "completed" -> "exit0"
    [] proc.kind = "timeout" -> "timeout"
    [] proc.kind = "error" -> "error"

\* safe_exec, lines 20-33: the branch a process result takes.
ExecOutcome(proc) ==
  CASE proc.kind = "completed" -> IF proc.returncode = 0 THEN "exit0" ELSE "nonzero"
    [] proc.kind = "timeout" -> "timeout"
    [] proc.kind = "error" -> "error"

\* safe_exec: output, the second component of what it returns, in pieces.
safe_exec_output(proc, timeout) ==
  CASE proc.kind = "completed" -> << proc.stdout, proc.stderr >>
    [] proc.kind = "timeout" -> << "Execution timed out after ", timeout, "s" >>
    [] proc.kind = "error" -> << "Execution error: " >>

\* check_semantic_equivalence, lines 23-25, and safe_exec, line 19: the script
\* handed to the subprocess, as its pieces in order.
test_code(entry) ==
  (IF entry.test_setup_code # "" THEN << entry.test_setup_code >> ELSE <<>>)
  \o entry.test_list
full_code(code, tests) == << code >> \o tests

\* A variant that reports a run that timed out as passed.
safe_exec_TimeoutPasses(outcome) ==
  CASE outcome = "exit0" -> TRUE
    [] outcome = "nonzero" -> FALSE
    [] outcome = "timeout" -> TRUE
    [] outcome = "error" -> FALSE

\* safe_exec: passed, the first component of what it returns.
safe_exec(outcome) ==
  CASE outcome = "exit0" -> TRUE
    [] outcome = "nonzero" -> FALSE
    [] outcome = "timeout" -> FALSE
    [] outcome = "error" -> FALSE

check_semantic_equivalence(outcome) == safe_exec(outcome)

(***************************************************************************)
(* adversarial.py: build_adversarial_dataset as a state machine.           *)
(***************************************************************************)
VARIABLES
  pc,                          \* position in build_adversarial_dataset
  entries,                     \* argument: the entry list
  operator_names,              \* argument: the configured operator names
  max_mutations_per_entry,     \* argument: the per-entry cap
  require_adversarial_filter,  \* argument: whether the oracle filters
  seed,                        \* argument: the seed
  rng,                         \* the one generator of the run
  operators,                   \* the resolved operators, by name
  results,                     \* the list being built, then returned
  ei,                          \* index of the entry of the outer loop
  oi,                          \* index of the operator of the inner loop
  count,                       \* mutations accepted for the current entry
  origin,                      \* history: for each element of results, the index of its entry
  calls,                       \* history: the operator invocations for the current entry
  verdicts,                    \* history: the oracle's verdicts of the run
  last_exec,                   \* history: what safe_exec met in the step just taken
  run,                         \* history: 1 in the first run, 2 in a repeated one
  first,                       \* history: results and verdicts of the first run
  a_source, a_rng, a_op, a_out,    \* one apply call by itself
  r_source, r_spans, r_perm, r_out, \* one _replace_ranges call by itself
  f_call, f_in, f_out              \* one call of a function without state by itself

ovars == << pc, entries, operator_names, max_mutations_per_entry,
            require_adversarial_filter, seed, rng, operators, results, ei, oi,
            count, origin, calls, verdicts, last_exec, run, first >>
avars == << a_source, a_rng, a_op, a_out >>
rvars == << r_source, r_spans, r_perm, r_out >>
fvars == << f_call, f_in, f_out >>
vars == << ovars, avars, rvars, fvars >>

NoRun == << >>

OIdle ==
  /\ pc = "idle" /\ entries = <<>> /\ operator_names = <<>>
  /\ max_mutations_per_entry = 0 /\ require_adversarial_filter = FALSE
  /\ seed = 0 /\ rng = 0 /\ operators = <<>> /\ results = <<>>
  /\ ei = 0 /\ oi = 0 /\ count = 0 /\ origin = <<>> /\ calls = <<>> /\ verdicts = <<>>
  /\ last_exec = "not_run" /\ run = 1 /\ first = NoRun
AIdle == a_source = <<>> /\ a_rng = 0 /\ a_op = "idle" /\ a_out = Applied(<<>>, <<>>, 0)
NotReplaced == [done |-> FALSE, given |-> <<>>, permuted |-> <<>>]
RIdle == r_source = <<>> /\ r_spans = <<>> /\ r_perm = <<>> /\ r_out = NotReplaced
FIdle == f_call = "idle" /\ f_in = <<>> /\ f_out = <<>>

\* A call of build_adversarial_dataset with any arguments within the bounds.
Init ==
  /\ pc = "start"
  /\ entries \in SeqsUpTo(EntryPool, MaxEntries)
  /\ operator_names \in OperatorConfigs
  /\ max_mutations_per_entry \in 0..MaxCap
  /\ require_adversarial_filter \in BOOLEAN
  /\ seed \in Seeds
  /\ rng = 0 /\ operators = <<>> /\ results = <<>>
  /\ ei = 0 /\ oi = 0 /\ count = 0 /\ origin = <<>> /\ calls = <<>> /\ verdicts = <<>>
  /\ last_exec = "not_run" /\ run = 1 /\ first = NoRun
  /\ AIdle /\ RIdle /\ FIdle

Args == << entries, operator_names, max_mutations_per_entry,
           require_adversarial_filter, seed >>

\* A variant that stops resolving at the first unknown name.
RECURSIVE UntilUnknown(_)
UntilUnknown(names) ==
  IF names = <<>> \/ Head(names) \notin OPERATOR_REGISTRY THEN <<>>
  ELSE << Head(names) >> \o UntilUnknown(Tail(names))
ResolvedOperators_UntilUnknown == UntilUnknown(operator_names)

\* Lines 50-56: the operators of the names the registry knows, in order.
ResolvedOperators ==
  SelectSeq(operator_names, LAMBDA name : name \in OPERATOR_REGISTRY)

\* A variant that keeps one generator across calls instead of making one from
\* the seed.
SharedRng == rng

\* Line 49: the generator of the run.
SeededRng == Random(seed)

\* A variant that stops one mutation late.
CapReached_OffByOne == count > max_mutations_per_entry

\* Line 67.
CapReached == count >= max_mutations_per_entry

\* Lines 49-62: seed the generator, resolve the names, return [] if none is
\* known.
Resolve ==
  /\ pc = "start"
  /\ rng' = SeededRng
  /\ operators' = ResolvedOperators
  /\ results' = <<>> /\ origin' = <<>>
  /\ pc' = IF operators' = <<>> THEN "done" ELSE "entries"
  /\ ei' = 0 /\ oi' = 0 /\ count' = 0
  /\ last_exec' = "not_run"
  /\ UNCHANGED << Args, calls, verdicts, run, first, avars, rvars, fvars >>

\* A variant that makes a fresh generator from the seed for every entry.
NextEntry_Reseeds ==
  /\ pc = "entries" /\ ei < Len(entries)
  /\ ~encode_raises(entries[ei + 1].code)
  /\ ei' = ei + 1 /\ oi' = 1 /\ count' = 0
  /\ rng' = Random(seed)
  /\ calls' = <<>>
  /\ pc' = "operators"
  /\ last_exec' = "not_run"
  /\ UNCHANGED << Args, operators, results, origin, verdicts, run, first,
                  avars, rvars, fvars >>

\* Lines 63-65: the next entry; parse it, count = 0.
NextEntry ==
  /\ pc = "entries" /\ ei < Len(entries)
  /\ ~encode_raises(entries[ei + 1].code)
  /\ ei' = ei + 1 /\ oi' = 1 /\ count' = 0
  /\ calls' = <<>>
  /\ pc' = "operators"
  /\ last_exec' = "not_run"
  /\ UNCHANGED << Args, rng, operators, results, origin, verdicts, run, first,
                  avars, rvars, fvars >>

\* Lines 96-97: the entries are exhausted; return results.
Return ==
  /\ pc = "entries" /\ ei = Len(entries)
  /\ pc' = "done"
  /\ last_exec' = "not_run"
  /\ UNCHANGED << Args, rng, operators, results, ei, oi, count, origin, calls, verdicts,
                  run, first, avars, rvars, fvars >>

\* Lines 66-68: the operators are exhausted, or the cap is reached.
LeaveEntry ==
  /\ pc = "operators"
  /\ oi > Len(operators) \/ CapReached
  /\ pc' = "entries"
  /\ last_exec' = "not_run"
  /\ UNCHANGED << Args, rng, operators, results, ei, oi, count, origin, calls, verdicts,
                  run, first, avars, rvars, fvars >>

\* A variant in which the generator handed to an operator depends on the
\* number of mutations accepted so far.
Outcome_CountSeeded ==
  apply(operators[oi], entries[ei].code, parse_python(entries[ei].code), rng + count)

\* Line 70 for the current entry and operator.
Outcome == apply(operators[oi], entries[ei].code, parse_python(entries[ei].code), rng)

\* Line 75.
Skipped(records, mutated_code, code) == records = <<>> \/ mutated_code = code

\* A variant that leaves the running count out of the identifier.
MutationId_NoCount(entry, records, n) ==
  IntToStr(entry.task_id) \o <<"_">> \o records[1].mutation_type

\* A variant that numbers a mutation by the position of its operator.
MutationId_ByOperator(entry, records, n) ==
  IntToStr(entry.task_id) \o <<"_">> \o records[1].mutation_type \o <<"_">>
  \o IntToStr(oi - 1)

\* Line 78.
MutationId(entry, records, n) ==
  IntToStr(entry.task_id) \o <<"_">> \o records[1].mutation_type \o <<"_">> \o IntToStr(n)

Call(outcome, oracle, r) ==
  [op |-> operators[oi], count |-> count, outcome |-> outcome, oracle |-> oracle,
   records |-> r.records, code |-> r.code]

\* One question to the oracle: the entry and operator, the generator before the
\* operator ran, what the operator proposed, and the answer.
Verdict(passed, r) ==
  [entry |-> ei, oi |-> oi, passed |-> passed,
   rng |-> rng, code |-> r.code, records |-> r.records]

CanApply == pc = "operators" /\ oi <= Len(operators) /\ ~CapReached

\* Lines 69-76: apply returned no records or the unchanged source.
ApplySkip ==
  /\ CanApply
  /\ LET r == Outcome IN
     /\ Skipped(r.records, r.code, entries[ei].code)
     /\ rng' = r.rng
     /\ calls' = Append(calls, Call("skipped", "not_run", r))
  /\ oi' = oi + 1
  /\ last_exec' = "not_run"
  /\ UNCHANGED << Args, pc, operators, results, ei, count, origin, verdicts, run, first,
                  avars, rvars, fvars >>

\* Lines 69-87: a mutation, the filter is on and the oracle says no.
ApplyReject ==
  /\ CanApply
  /\ require_adversarial_filter
  /\ LET r == Outcome IN
     /\ ~Skipped(r.records, r.code, entries[ei].code)
     /\ \E o \in ExecOutcomes :
          /\ ~check_semantic_equivalence(o)
          /\ last_exec' = o
     /\ calls' = Append(calls, Call("rejected", "failed", r))
     /\ rng' = r.rng
     /\ verdicts' = Append(verdicts, Verdict(FALSE, r))
  /\ oi' = oi + 1
  /\ UNCHANGED << Args, pc, operators, results, ei, count, origin, run, first,
                  avars, rvars, fvars >>

\* Lines 69-94: a mutation that is kept: the filter is off, or the oracle says yes.
ApplyAccept ==
  /\ CanApply
  /\ LET r == Outcome IN
     /\ ~Skipped(r.records, r.code, entries[ei].code)
     /\ \E o \in ExecOutcomes \cup {"not_run"} :
          /\ (o = "not_run") = ~require_adversarial_filter
          /\ o # "not_run" => check_semantic_equivalence(o)
          /\ last_exec' = o
          /\ calls' = Append(calls, Call("accepted",
                                         IF o = "not_run" THEN o ELSE "passed", r))
          /\ results' = Append(results,
               [ from_mbpp_entry(entries[ei], r.code,
                                 MutationId(entries[ei], r.records, count), r.records)
                 EXCEPT !.tests_pass_on_mutated =
                          IF o = "not_run" THEN "None" ELSE "True" ])
     /\ rng' = r.rng
     /\ verdicts' = IF require_adversarial_filter
                    THEN Append(verdicts, Verdict(TRUE, r))
                    ELSE verdicts
  /\ origin' = Append(origin, ei)
  /\ oi' = oi + 1
  /\ count' = count + 1
  /\ UNCHANGED << Args, pc, operators, ei, run, first, avars, rvars, fvars >>

\* The same call once more, with the same arguments.
Rerun ==
  /\ pc = "done" /\ run = 1
  /\ first' = [results |-> results, verdicts |-> verdicts]
  /\ run' = 2
  /\ pc' = "start"
  /\ operators' = <<>> /\ results' = <<>> /\ origin' = <<>>
  /\ ei' = 0 /\ oi' = 0 /\ count' = 0 /\ calls' = <<>> /\ verdicts' = <<>>
  /\ last_exec' = "not_run"
  /\ UNCHANGED << Args, rng, avars, rvars, fvars >>

Next ==
  \/ Resolve \/ NextEntry \/ Return \/ LeaveEntry
  \/ ApplySkip \/ ApplyReject \/ ApplyAccept

Spec == Init /\ [][Next]_vars

\* Two runs on the same arguments, for the operator lists of the tests and one
\* with an unknown name.
TwiceConfigs ==
  { << "rename_variable" >>,
    << "rename_variable", "remove_type_annotation" >>,
    << "shuffle_lines", "rename_builtin_type" >> }
InitTwice == Init /\ operator_names \in TwiceConfigs
NextTwice == Next \/ Rerun
SpecTwice == InitTwice /\ [][NextTwice]_vars

(***************************************************************************)
(* One call of apply, of any operator, on any program of the corpus with   *)
(* the generator in any state within the bound.                            *)
(***************************************************************************)
\* Generator states from which rename_variable, on the second function of
\* P_two, draws a and then val, and val and then the first name of the pool.
DrawsVal == {157, 171}

\* Generator states from which rename_builtin_type draws the first and the
\* second of three matches.
DrawsFirstOrSecond == {874, 1748}

InitOps ==
  /\ OIdle /\ RIdle /\ FIdle
  /\ a_source \in {Corpus[i].src : i \in DOMAIN Corpus}
  /\ a_rng \in 0..MaxRng \cup DrawsVal \cup DrawsFirstOrSecond
  /\ a_op = "none"
  /\ a_out = Applied(<<>>, <<>>, 0)

Called(op, out) ==
  /\ a_op = "none"
  /\ a_op' = op
  /\ a_out' = out
  /\ UNCHANGED << a_source, a_rng, ovars, rvars, fvars >>

CallRenameVariable ==
  Called("rename_variable",
         RenameVariableOperator_apply(a_source, parse_python(a_source), a_rng))
CallRemoveTypeAnnotation ==
  Called("remove_type_annotation",
         RemoveTypeAnnotationOperator_apply(a_source, parse_python(a_source), a_rng))
CallRenameUserType ==
  Called("rename_user_type",
         RenameUserTypeOperator_apply(a_source, parse_python(a_source), a_rng))
CallRenameBuiltinType ==
  Called("rename_builtin_type",
         RenameBuiltinTypeOperator_apply(a_source, parse_python(a_source), a_rng))

NextOps ==
  \/ CallRenameVariable \/ CallRemoveTypeAnnotation
  \/ CallRenameUserType \/ CallRenameBuiltinType

SpecOps == InitOps /\ [][NextOps]_vars

(***************************************************************************)
(* One call of _replace_ranges on a list of pairwise non-overlapping spans *)
(* of a buffer, and one on a permutation of that list.                     *)
(***************************************************************************)
RRSources == { <<>>, <<"a","b","c","d">> }
RRTexts == { <<>>, <<"X">>, <<"Y","Z">> }

SpansOf(source) ==
  { Span(s, e, t) : s \in 0..Len(source), e \in 0..Len(source), t \in RRTexts }

\* Two different half-open ranges that share no byte, neither lying inside the
\* other.
NonOverlapping(a, b) ==
  /\ a.end <= b.start \/ b.end <= a.start
  /\ << a.start, a.end >> # << b.start, b.end >>

PairwiseNonOverlapping(spans) ==
  \A i, j \in DOMAIN spans : i # j => NonOverlapping(spans[i], spans[j])

InitRR ==
  /\ OIdle /\ AIdle /\ FIdle
  /\ r_source \in RRSources
  /\ r_spans \in { l \in SeqsUpTo({ x \in SpansOf(r_source) : x.start <= x.end },
                                  MaxSpans) : PairwiseNonOverlapping(l) }
  /\ r_perm = r_spans
  /\ r_out = NotReplaced

Permuted(l) ==
  { [i \in DOMAIN l |-> l[f[i]]] : f \in Permutations(DOMAIN l) }

ReplaceRanges ==
  /\ ~r_out.done
  /\ r_perm' \in Permuted(r_spans)
  /\ r_out' = [done |-> TRUE,
               given |-> _replace_ranges(r_source, r_spans),
               permuted |-> _replace_ranges(r_source, r_perm')]
  /\ UNCHANGED << r_source, r_spans, ovars, avars, fvars >>

NextRR == ReplaceRanges

SpecRR == InitRR /\ [][NextRR]_vars

(***************************************************************************)
(* Properties of build_adversarial_dataset.                                *)
(***************************************************************************)
DistinctTaskIds ==
  \A i, j \in DOMAIN entries : i # j => entries[i].task_id # entries[j].task_id

\* C1, as stated: in the list one call returns no two MutatedEntry records
\* have the same mutation_id, whatever the entry list, the operator names, the
\* cap, the filter setting and the seed.
UniqueMutationIds ==
  \A i, j \in DOMAIN results :
     i # j => results[i].mutation_id # results[j].mutation_id

\* C1, amended: when the entries of the list have pairwise distinct task_ids,
\* no two MutatedEntry records of the returned list have the same mutation_id.
UniqueMutationIdsForDistinctTasks == DistinctTaskIds => UniqueMutationIds

\* Two entries with distinct task_ids, two records for one of them.
UniqueMutationIdsWitness ==
  /\ pc = "done" /\ DistinctTaskIds /\ Len(entries) = 2
  /\ Len(results) >= 3
  /\ \E i, j \in DOMAIN origin : i # j /\ origin[i] = origin[j]

EmittedFor(e) == Cardinality({k \in DOMAIN origin : origin[k] = e})

\* C2: at most max_mutations_per_entry records are emitted for each entry; an
\* operator is invoked only while the counter of the entry is below the cap;
\* an application that returns no records or the unchanged source is skipped
\* and leaves the counter as it was, only an accepted one adds one to it.
CapRespected ==
  /\ Len(origin) = Len(results)
  /\ \A e \in 1..Len(entries) : EmittedFor(e) <= max_mutations_per_entry
  /\ pc \in {"operators", "entries"} /\ ei >= 1 => EmittedFor(ei) = count
  /\ \A k \in DOMAIN calls :
       LET after == IF k < Len(calls) THEN calls[k + 1].count ELSE count IN
       /\ calls[k].count < max_mutations_per_entry
       /\ (calls[k].records = <<>> \/ calls[k].code = entries[ei].code)
            => calls[k].outcome = "skipped"
       /\ after = calls[k].count + (IF calls[k].outcome = "accepted" THEN 1 ELSE 0)

\* The cap is reached after a skipped application, with an operator left over.
CapRespectedWitness ==
  /\ pc = "entries" /\ max_mutations_per_entry >= 1
  /\ count = max_mutations_per_entry
  /\ oi <= Len(operators)
  /\ \E k \in DOMAIN calls : calls[k].outcome = "skipped"

\* C3, as stated: two runs with the same entry list, operator list, cap,
\* filter setting and seed return the same list.
SameOutputTwice ==
  pc = "done" /\ run = 2 => results = first.results

\* The oracle gave the same verdict in both runs wherever both asked it about
\* the same entry and operator.
SameVerdicts ==
  \A i \in DOMAIN first.verdicts, j \in DOMAIN verdicts :
     first.verdicts[i].entry = verdicts[j].entry /\ first.verdicts[i].oi = verdicts[j].oi
       => first.verdicts[i].passed = verdicts[j].passed

\* C3, amended: two runs with the same arguments return the same list provided
\* the oracle, where it is asked about the same entry and operator in both
\* runs, gives the same verdict; so always when the filter is off.
SameOutputTwiceGivenVerdicts ==
  pc = "done" /\ run = 2 /\ SameVerdicts => results = first.results

\* A second run with the filter on in which the oracle was asked and agreed
\* with the first run, and one with the filter off.
SameOutputTwiceWitness ==
  /\ pc = "done" /\ run = 2 /\ require_adversarial_filter
  /\ verdicts # <<>> /\ SameVerdicts
  /\ Len(results) >= 2 /\ results = first.results

\* C4: every MutatedEntry of the returned list has a non-empty
\* mutations_applied, and an application that returns no records is skipped.
MutationsAppliedNonEmpty ==
  /\ \A k \in DOMAIN results : results[k].mutations_applied # <<>>
  /\ \A k \in DOMAIN calls : calls[k].records = <<>> => calls[k].outcome = "skipped"
  /\ Len(results) = Len(origin)

\* An application without records was skipped and later ones were recorded.
MutationsAppliedNonEmptyWitness ==
  /\ pc = "done" /\ results # <<>>
  /\ calls # <<>> /\ calls[1].records = <<>> /\ calls[1].outcome = "skipped"
  /\ \E k \in DOMAIN calls : calls[k].outcome = "accepted"

\* The functions a program of the corpus defines.
FunctionsOf(code) ==
  LET i == CHOOSE i \in DOMAIN Corpus : Corpus[i].src = code
  IN { Programs[i][k] : k \in {k \in DOMAIN Programs[i] : Programs[i][k].kind = "def"} }

\* The program defines functions, each with a parameter other than self.
HasParameterOtherThanSelf(code) ==
  /\ FunctionsOf(code) # {}
  /\ \A f \in FunctionsOf(code) : \E k \in DOMAIN f.params : f.params[k].name # SelfName

\* C9: with the operator list [rename_variable], cap 1 and the filter off, for
\* every seed and every entry list whose entries define functions that each
\* have a parameter other than self, the returned list holds exactly one
\* MutatedEntry per entry, in input order, with mutation_id
\* {task_id}_rename_variable_0.
OneRenamePerEntry ==
  /\ pc = "done"
  /\ operator_names = << "rename_variable" >>
  /\ max_mutations_per_entry = 1
  /\ ~require_adversarial_filter
  /\ \A k \in DOMAIN entries : HasParameterOtherThanSelf(entries[k].code)
  => /\ Len(results) = Len(entries)
     /\ \A k \in DOMAIN entries :
          /\ results[k].original_task_id = entries[k].task_id
          /\ results[k].mutation_id =
               IntToStr(entries[k].task_id)
               \o <<"_","r","e","n","a","m","e","_","v","a","r","i","a","b","l","e","_","0">>

FailingOutcomes == {"nonzero", "timeout", "error"}

\* C10, in a state: with the filter on every emitted MutatedEntry has
\* tests_pass_on_mutated true and a mutation the oracle failed, however it
\* failed, was rejected; with the filter off the oracle was never run and
\* every emitted MutatedEntry has tests_pass_on_mutated None.
FilterState ==
  /\ require_adversarial_filter =>
       /\ \A k \in DOMAIN results : results[k].tests_pass_on_mutated = "True"
       /\ \A k \in DOMAIN calls :
            /\ calls[k].oracle = "failed" => calls[k].outcome = "rejected"
            /\ calls[k].outcome = "accepted" => calls[k].oracle = "passed"
  /\ ~require_adversarial_filter =>
       /\ \A k \in DOMAIN results : results[k].tests_pass_on_mutated = "None"
       /\ \A k \in DOMAIN calls : calls[k].oracle = "not_run"
       /\ last_exec = "not_run" /\ verdicts = <<>>
  /\ last_exec \in FailingOutcomes =>
       calls # <<>> /\ calls[Len(calls)].outcome = "rejected"

\* C10, in a step: a step in which the oracle fails leaves the returned list
\* and the counter of the entry as they were.
FilterStep ==
  last_exec' \in FailingOutcomes => results' = results /\ count' = count

\* C10: with the filter on, a mutation whose oracle check fails (non-zero exit,
\* timeout or execution error alike) is not emitted and does not add to the
\* counter, and every emitted MutatedEntry has tests_pass_on_mutated true;
\* with the filter off the oracle is never run and every emitted MutatedEntry
\* has tests_pass_on_mutated None.
EquivalenceFilter == []FilterState /\ [][FilterStep]_vars

\* A run with the filter on that rejected a mutation on a timeout after it had
\* accepted one.
EquivalenceFilterWitness ==
  /\ require_adversarial_filter /\ last_exec = "timeout"
  /\ results # <<>> /\ count >= 1
  /\ calls[Len(calls)].outcome = "rejected"
  /\ \E k \in DOMAIN calls : calls[k].outcome = "accepted"

(***************************************************************************)
(* Properties of one apply call.                                           *)
(***************************************************************************)
ACalled == a_op \in OPERATOR_REGISTRY

\* C5: for each of the four operators, every source and every state of the
\* generator, if apply returns an empty record list then the source it returns
\* is the source it was given.
NoOpIntegrity ==
  ACalled /\ a_out.records = <<>> => a_out.code = a_source

\* remove_type_annotation on a program with functions but no annotation.
NoOpIntegrityWitness ==
  /\ a_op = "remove_type_annotation" /\ a_source = Corpus[4].src
  /\ a_out.records = <<>> /\ a_out.code = a_source

\* C6: for every program of the corpus and each of the four operators, when
\* apply returns a non-empty record list the source it returns parses.
ParseabilityPreserved ==
  ACalled /\ a_out.records # <<>> => ast_parse(a_source) /\ ast_parse(a_out.code)

\* rename_builtin_type changed an annotated program, which still parses.
ParseabilityPreservedWitness ==
  /\ a_op = "rename_builtin_type" /\ a_out.records # <<>>
  /\ a_out.code # a_source /\ ast_parse(a_out.code)

\* Direct substitution: the buffer read from offset i; at the start offset of
\* a span its text stands in place of the bytes [start, end), insertions (empty
\* ranges) before a replaced range; every other byte is kept.
RECURSIVE Substituted(_, _, _)
Substituted(source, spans, i) ==
  LET here == SelectSeq(spans, LAMBDA r : r.start = i)
      rest == SelectSeq(spans, LAMBDA r : r.start # i)
      inserts == SelectSeq(here, LAMBDA r : r.end = i)
      ranges == SelectSeq(here, LAMBDA r : r.end > i)
      inserted == Flatten([k \in 1..Len(inserts) |-> inserts[k].text])
  IN IF ranges # <<>>
     THEN inserted \o ranges[1].text \o Substituted(source, rest, ranges[1].end)
     ELSE IF i < Len(source)
     THEN inserted \o << source[i + 1] >> \o Substituted(source, rest, i + 1)
     ELSE inserted

\* Node n lies in the subtree of node top.
RECURSIVE Inside(_, _, _)
Inside(tree, n, top) ==
  n = top \/ (tree.nodes[n].parent # 0 /\ Inside(tree, tree.nodes[n].parent, top))

Identifiers(tree) == {n \in DOMAIN tree.nodes : tree.nodes[n].type = "identifier"}

\* C7: a successful rename_variable yields exactly one record, of kind
\* rename_variable; there are a function F and a parameter declaration of F
\* with the old name such that the returned source is the given one with that
\* declaration and every identifier of F's body with the old name replaced by
\* the new name, and every other byte, identifiers with the old name outside
\* F among them, unchanged.
RenameConsistent ==
  a_op = "rename_variable" /\ a_out.records # <<>> =>
    LET tree == parse_python(a_source)
        rec == a_out.records[1]
        old == rec.original
        new == rec.replacement
    IN /\ Len(a_out.records) = 1
       /\ rec.mutation_type = MutationType.RENAME_VARIABLE
       /\ \E F \in {n \in DOMAIN tree.nodes : tree.nodes[n].type = "function_definition"} :
          \E d \in Identifiers(tree) :
            /\ Inside(tree, d, child_by_field_name(tree, F, "parameters"))
            /\ NodeText(tree, d) = old
            /\ rec.location = <<"f","u","n","c","t","i","o","n",":">>
                                \o NodeText(tree, child_by_field_name(tree, F, "name"))
            /\ LET renamed ==
                     SelectSeq([k \in 1..Len(tree.nodes) |-> k],
                       LAMBDA u :
                         \/ u = d
                         \/ /\ u \in Identifiers(tree)
                            /\ Inside(tree, u, child_by_field_name(tree, F, "body"))
                            /\ NodeText(tree, u) = old)
               IN a_out.code =
                    Substituted(a_source,
                      [k \in 1..Len(renamed) |->
                         Span(tree.nodes[renamed[k]].start, tree.nodes[renamed[k]].end, new)],
                      0)

\* A parameter a renamed in one of two functions that both have an a.
RenameConsistentWitness ==
  /\ a_op = "rename_variable" /\ a_source = Corpus[4].src
  /\ a_out.records # <<>> /\ a_out.records[1].original = <<"a">>
  /\ a_out.code # a_source

(***************************************************************************)
(* Properties of _replace_ranges.                                          *)
(***************************************************************************)
DistinctStarts(spans) ==
  \A i, j \in DOMAIN spans : i # j => spans[i].start # spans[j].start

\* C8: for every list of pairwise non-overlapping spans, in any order,
\* _replace_ranges returns the buffer with each span's text substituted at its
\* offsets, the same for every permutation of the list, and the source itself
\* for the empty list.
SpanEngineCorrect ==
  r_out.done =>
    /\ r_out.given = Substituted(r_source, r_spans, 0)
    /\ r_out.permuted = r_out.given
    /\ r_spans = <<>> => r_out.given = r_source

\* What _replace_ranges does achieve: the same, for lists of pairwise
\* non-overlapping spans whose start offsets are pairwise distinct, as those of
\* non-empty spans are.
SpanEngineCorrectForDistinctStarts ==
  r_out.done /\ DistinctStarts(r_spans) => SpanEngineCorrect

(***************************************************************************)
(* One call of check_semantic_equivalence: any entry, any mutated source,  *)
(* any behaviour of the subprocess.                                        *)
(***************************************************************************)
OracleEntries ==
  EntryPool \cup
  { [ MBPPEntry(4, "Root.", Corpus[1].src, << "assert add(1, 2) == 3", "assert add(0, 0) == 0" >>)
      EXCEPT !.test_setup_code = "import math" ] }

InitOracle ==
  /\ OIdle /\ AIdle /\ RIdle
  /\ f_call = "none"
  /\ f_in \in [entry : OracleEntries, mutated_code : {Corpus[1].src, Corpus[2].src},
               proc : ProcessResults]
  /\ f_out = <<>>

CheckSemanticEquivalence ==
  /\ f_call = "none"
  /\ f_call' = "check_semantic_equivalence"
  /\ f_out' = [passed |-> check_semantic_equivalence(ExecOutcome(f_in.proc)),
               script |-> full_code(f_in.mutated_code, test_code(f_in.entry)),
               output |-> safe_exec_output(f_in.proc, 10)]
  /\ UNCHANGED << f_in, ovars, avars, rvars >>

NextOracle == CheckSemanticEquivalence

SpecOracle == InitOracle /\ [][NextOracle]_vars

\* C11: check_semantic_equivalence returns true if and only if the subprocess,
\* run on the mutated source followed by the entry's setup code and its test
\* assertions, exits with code 0 before the timeout; a non-zero exit, a
\* timeout and a failure to run each give false; the verdict is the same for
\* every captured output.
OracleVerdict ==
  f_call = "check_semantic_equivalence" =>
    /\ f_out.passed = (f_in.proc.kind = "completed" /\ f_in.proc.returncode = 0)
    /\ Head(f_out.script) = f_in.mutated_code
    /\ Tail(f_out.script) =
         IF f_in.entry.test_setup_code = "" THEN f_in.entry.test_list
         ELSE << f_in.entry.test_setup_code >> \o f_in.entry.test_list
    /\ \A q \in ProcessResults :
         q.kind = f_in.proc.kind /\ q.returncode = f_in.proc.returncode
           => check_semantic_equivalence(ExecOutcome(q)) = f_out.passed

\* A process that printed an assertion error and yet exited with 0, on an
\* entry with setup code.
OracleVerdictWitness ==
  /\ f_call = "check_semantic_equivalence"
  /\ f_in.proc.kind = "completed" /\ f_in.proc.returncode = 0
  /\ f_in.proc.stderr = "AssertionError"
  /\ f_in.entry.test_setup_code # ""
  /\ f_out.passed

(***************************************************************************)
(* build_adversarial_dataset when things raise: apply of an operator (a    *)
(* RecursionError of _collect_nodes on a deep tree, say), and parse_python *)
(* on a source that cannot be encoded.                                     *)
(***************************************************************************)
\* s = '<lone surrogate>'
UnencodableSource == << "s", " ", "=", " ", "'", Surrogate, "'", "\n" >>

FaultyPool ==
  { MBPPEntry(1, "Add two numbers.", Corpus[1].src, << "assert add(1, 2) == 3" >>),
    MBPPEntry(5, "Text.", UnencodableSource, << "assert s" >>) }

FaultyConfigs ==
  { << "rename_variable", "remove_type_annotation" >>,
    << "rename_user_type", "rename_variable" >> }

\* One long list, run on one entry with annotations and no class: every
\* operator but rename_user_type finds a target in it.
FaultyLong ==
  << "rename_variable", "rename_variable", "remove_type_annotation",
     "rename_user_type", "rename_builtin_type" >>
TypedEntry ==
  MBPPEntry(12, "Add two integers.", Corpus[2].src, << "assert add(1, 2) == 3" >>)

InitFaulty ==
  /\ pc = "start"
  /\ \/ /\ entries \in SeqsUpTo(FaultyPool, MaxEntries)
        /\ operator_names \in FaultyConfigs
        /\ max_mutations_per_entry \in 0..MaxCap
        /\ require_adversarial_filter \in BOOLEAN
        /\ seed \in Seeds
     \/ /\ entries = << TypedEntry >>
        /\ operator_names = FaultyLong
        /\ max_mutations_per_entry = MaxCap
        /\ require_adversarial_filter = TRUE
        /\ seed = 42
  /\ rng = 0 /\ operators = <<>> /\ results = <<>>
  /\ ei = 0 /\ oi = 0 /\ count = 0 /\ origin = <<>> /\ calls = <<>> /\ verdicts = <<>>
  /\ last_exec = "not_run" /\ run = 1 /\ first = NoRun
  /\ AIdle /\ RIdle /\ FIdle

\* The generator states an apply passes through on its way from one to another.
RECURSIVE DrawsBetween(_, _)
DrawsBetween(from, to) ==
  IF from = to THEN {from} ELSE {from} \cup DrawsBetween(RngStep(from), to)

\* A variant that leaves the operators of the entry: break for continue.
OnException_Break == [pc |-> "entries", oi |-> oi]

\* Lines 71-73: continue with the next operator.
OnException == [pc |-> "operators", oi |-> oi + 1]

\* Lines 69-73: apply raises, after any of the draws it makes.
ApplyRaise ==
  /\ CanApply
  /\ rng' \in DrawsBetween(rng, Outcome.rng)
  /\ calls' = Append(calls, Call("raised", "not_run", Applied(<<>>, <<>>, rng')))
  /\ pc' = OnException.pc
  /\ oi' = OnException.oi
  /\ last_exec' = "not_run"
  /\ UNCHANGED << Args, operators, results, ei, count, origin, verdicts, run, first,
                  avars, rvars, fvars >>

\* Line 64: parse_python raises; nothing catches it and the call ends with the
\* exception instead of returning.
ParseError ==
  /\ pc = "entries" /\ ei < Len(entries)
  /\ encode_raises(entries[ei + 1].code)
  /\ ei' = ei + 1
  /\ pc' = "raised"
  /\ last_exec' = "not_run"
  /\ UNCHANGED << Args, rng, operators, results, oi, count, origin, calls, verdicts,
                  run, first, avars, rvars, fvars >>

NextFaulty == Next \/ ApplyRaise \/ ParseError

SpecFaulty == InitFaulty /\ [][NextFaulty]_vars

(***************************************************************************)
(* More properties of build_adversarial_dataset.                           *)
(***************************************************************************)
\* The names of a list that are among the four registered ones, in order.
RECURSIVE KnownNames(_)
KnownNames(names) ==
  IF names = <<>> THEN <<>>
  ELSE (IF Head(names) \in {"rename_variable", "remove_type_annotation",
                            "rename_user_type", "rename_builtin_type"}
        THEN << Head(names) >> ELSE <<>>)
       \o KnownNames(Tail(names))

\* C12: the operators invoked for an entry are the configured names that are
\* in the registry, in configured order, all of them unless the cap stops the
\* entry; an unknown name does not stop the run, which visits every entry;
\* when no configured name is known the run returns the empty list without
\* visiting an entry or drawing from the generator.
UnknownOperatorsSkipped ==
  LET known == KnownNames(operator_names) IN
  pc # "start" =>
    /\ Len(calls) <= Len(known)
    /\ \A k \in DOMAIN calls : calls[k].op = known[k]
    /\ pc = "entries" /\ ei >= 1 /\ count < max_mutations_per_entry
         => Len(calls) = Len(known)
    /\ pc = "done" /\ known # <<>> => ei = Len(entries)
    /\ known = <<>> =>
         pc = "done" /\ results = <<>> /\ ei = 0 /\ calls = <<>> /\ rng = Random(seed)

\* An unknown name before a known one: the known one was applied and gave a
\* record.
UnknownOperatorsSkippedWitness ==
  /\ pc = "done" /\ operator_names = << "shuffle_lines", "rename_builtin_type" >>
  /\ results # <<>> /\ calls # <<>> /\ calls[1].op = "rename_builtin_type"

\* C13: an exception raised by apply leaves the counter of the entry and the
\* returned list as they were: no MutatedEntry stands for that entry and
\* operator; the remaining operators of the entry are invoked all the same
\* (unless the cap stops it) and the remaining entries are visited.
OperatorExceptionContained ==
  /\ Len(results) = Len(origin)
  /\ \A k \in DOMAIN calls :
       calls[k].outcome = "raised" =>
         (IF k < Len(calls) THEN calls[k + 1].count ELSE count) = calls[k].count
  /\ pc \in {"operators", "entries"} /\ ei >= 1 =>
       /\ count = Cardinality({k \in DOMAIN calls : calls[k].outcome = "accepted"})
       /\ EmittedFor(ei) = count
  /\ pc = "entries" /\ ei >= 1 /\ count < max_mutations_per_entry
       => Len(calls) = Len(operators)
  /\ pc = "done" /\ operators # <<>> => ei = Len(entries)

\* The first operator raised, the second one gave a record, the run returned.
OperatorExceptionContainedWitness ==
  /\ pc = "done" /\ Len(calls) = 2
  /\ calls[1].outcome = "raised" /\ calls[2].outcome = "accepted"
  /\ Len(results) = 1

\* C14: when parsing the code of an entry raises, the run does not end with
\* the exception: it goes on and returns the mutations of the other entries.
ParseFailureNotFatal == pc # "raised"

(***************************************************************************)
(* A single call of load_and_validate on a list of entries, some of them   *)
(* invalid: a blank description, blank code, code that is not a program,   *)
(* code with no UTF-8 encoding, no tests, a test that is not a program.    *)
(***************************************************************************)
ValidateTexts == { << "A", "d", "d", "." >>, << " ", "\n" >> }
ValidateCodes ==
  { Corpus[1].src, << " ", "\n", " " >>, << "d", "e", "f", " ", "b", "(", ":", "\n" >>,
    UnencodableSource }
OkTest == << "o", "k", " ", "=", " ", "a", "d", "d" >>
BadTest == << "o", "k", " ", "=" >>
ValidateTests == { <<>>, << OkTest >>, << OkTest, BadTest >>, << OkTest, OkTest >> }
ValidateEntries ==
  { MBPPEntry(1, text, code, test_list) :
      text \in ValidateTexts, code \in ValidateCodes, test_list \in ValidateTests }

InitValidate ==
  /\ OIdle /\ AIdle /\ RIdle
  /\ f_call = "none"
  /\ f_in \in SeqsUpTo(ValidateEntries, MaxBatch)
  /\ f_out = <<>>

LoadAndValidate ==
  /\ f_call = "none"
  /\ f_call' = "load_and_validate"
  /\ f_out' = load_and_validate(f_in)
  /\ UNCHANGED << f_in, ovars, avars, rvars >>

NextValidate == LoadAndValidate

SpecValidate == InitValidate /\ [][NextValidate]_vars

\* What the documentation of validate_entry asks of an entry.
IsProgram(text) == ast_parse_outcome(text) = "ok"
IsValid(entry) ==
  /\ strip(entry.text) # <<>>
  /\ strip(entry.code) # <<>>
  /\ IsProgram(entry.code)
  /\ entry.test_list # <<>>
  /\ \A i \in DOMAIN entry.test_list : IsProgram(entry.test_list[i])

\* C15: load_and_validate returns exactly the entries, in input order, for
\* which validate_entry is true; validate_entry is false when the description
\* or the code is blank, the code does not parse, the test list is empty or a
\* test does not parse, and true otherwise.
LoadAndValidateFilters ==
  f_call = "load_and_validate" =>
    /\ \A i \in DOMAIN f_in :
         validate_entry(f_in[i]) = (IF IsValid(f_in[i]) THEN "True" ELSE "False")
    /\ f_out = [kind |-> "return", valid |-> SelectSeq(f_in, IsValid)]

\* The same for lists all of whose texts have a UTF-8 encoding.
Encodable(entry) ==
  /\ ~encode_raises(entry.code)
  /\ \A i \in DOMAIN entry.test_list : ~encode_raises(entry.test_list[i])
LoadAndValidateFiltersEncodable ==
  (f_call = "load_and_validate" /\ \A i \in DOMAIN f_in : Encodable(f_in[i])) =>
    /\ \A i \in DOMAIN f_in :
         validate_entry(f_in[i]) = (IF IsValid(f_in[i]) THEN "True" ELSE "False")
    /\ f_out = [kind |-> "return", valid |-> SelectSeq(f_in, IsValid)]

\* What the oracle was asked in a run, answers left out.
Proposals(vs) ==
  [i \in DOMAIN vs |-> << vs[i].entry, vs[i].oi, vs[i].rng, vs[i].code >>]

\* The answers that say yes, in order.
Passed(vs) == SelectSeq(vs, LAMBDA v : v.passed)

\* The number of answers before the i-th that are about the same entry.
EarlierOf(vs, i) == Cardinality({ j \in 1..(i - 1) : vs[j].entry = vs[i].entry })

\* The records that numbering the accepted proposals of each entry in order
\* gives.
AcceptedRecords(vs) ==
  [i \in DOMAIN vs |->
     [ from_mbpp_entry(entries[vs[i].entry], vs[i].code,
                       MutationId(entries[vs[i].entry], vs[i].records, EarlierOf(vs, i)),
                       vs[i].records)
       EXCEPT !.tests_pass_on_mutated = "True" ]]

TwoFilteredRuns == pc = "done" /\ run = 2 /\ require_adversarial_filter

\* C16: what is proposed to the oracle (for which entry, by which operator,
\* from which generator state, with which mutated source) does not depend on
\* the answers of the oracle: two runs on the same arguments propose the same,
\* whatever the answers, and each run returns the proposals accepted in it.
OracleIndependent ==
  TwoFilteredRuns =>
    /\ Proposals(first.verdicts) = Proposals(verdicts)
    /\ results = AcceptedRecords(Passed(verdicts))
    /\ first.results = AcceptedRecords(Passed(first.verdicts))

\* The cap never ends the operator loop of an entry.
CapNeverBinds == max_mutations_per_entry >= Len(operators)

\* C16, amended: the same, provided the cap is at least the number of
\* resolved operators; the sequence number in an identifier counts the
\* proposals of the entry accepted before.
OracleIndependentUnderCap ==
  (TwoFilteredRuns /\ CapNeverBinds) =>
    /\ Proposals(first.verdicts) = Proposals(verdicts)
    /\ results = AcceptedRecords(Passed(verdicts))
    /\ first.results = AcceptedRecords(Passed(first.verdicts))

\* Two runs with different answers to the same proposal, after which a later
\* operator still proposed.
OracleIndependentUnderCapWitness ==
  /\ TwoFilteredRuns /\ CapNeverBinds
  /\ Len(verdicts) >= 2
  /\ \E i \in DOMAIN verdicts : i < Len(verdicts)
                                 /\ first.verdicts[i].passed # verdicts[i].passed

(***************************************************************************)
(* Two calls of _collect_nodes on one node of one tree.  The trees are     *)
(* those of the corpus and one in which a binary_operator lies inside a    *)
(* binary_operator.                                                        *)
(***************************************************************************)
\* def s(a, b, c): return a + b + c
P_sum3 ==
  << Def(<<"s">>, << P("plain", <<"a">>, <<>>), P("plain", <<"b">>, <<>>),
                     P("plain", <<"c">>, <<>>) >>,
         <<>>, << <<"a">>, <<"b">>, <<"c">> >>) >>

QueryTrees == CorpusSet \cup { Tree(ModulePiece(P_sum3)) }

\* Type tags the operators ask for, one of an anonymous token, one no tree has.
QueryTypes ==
  { "identifier", "function_definition", "class_definition", "typed_parameter",
    "type", "binary_operator", "module", ":", "lambda" }

NoQuery == [nodes |-> <<>>, again |-> <<>>, tree |-> <<>>]

InitQuery ==
  /\ OIdle /\ AIdle /\ RIdle
  /\ f_call = "none"
  /\ f_in \in UNION { { [tree |-> t, n |-> n, type_name |-> ty] :
                            n \in DOMAIN t.nodes, ty \in QueryTypes } :
                        t \in QueryTrees }
  /\ f_out = NoQuery

\* The first call; the tree the caller holds afterwards is the one it passed.
CollectNodes ==
  /\ f_call = "none"
  /\ f_call' = "_collect_nodes"
  /\ f_out' = [nodes |-> _collect_nodes(f_in.tree, f_in.n, f_in.type_name),
               again |-> <<>>,
               tree |-> f_in.tree]
  /\ UNCHANGED << f_in, ovars, avars, rvars >>

\* A second call on the tree the first call left.
CollectNodesAgain ==
  /\ f_call = "_collect_nodes"
  /\ f_call' = "again"
  /\ f_out' = [f_out EXCEPT !.again = _collect_nodes(f_out.tree, f_in.n, f_in.type_name)]
  /\ UNCHANGED << f_in, ovars, avars, rvars >>

NextQuery == CollectNodes \/ CollectNodesAgain

SpecQuery == InitQuery /\ [][NextQuery]_vars

\* m lies in the subtree of n: n is m or an ancestor of m.
RECURSIVE InSubtree(_, _, _)
InSubtree(tree, m, n) ==
  m = n \/ (tree.nodes[m].parent # 0 /\ InSubtree(tree, tree.nodes[m].parent, n))

\* x comes before y in pre-order: x is an ancestor of y, or some node has x
\* below an earlier child and y below a later one.
PreOrderBefore(tree, x, y) ==
  \/ x # y /\ InSubtree(tree, y, x)
  \/ \E q \in DOMAIN tree.nodes :
       \E i, j \in DOMAIN tree.nodes[q].kids :
          /\ i < j
          /\ InSubtree(tree, x, tree.nodes[q].kids[i])
          /\ InSubtree(tree, y, tree.nodes[q].kids[j])

\* C17: _collect_nodes returns every node of the type in the subtree exactly
\* once, also one that lies inside another of the type, in pre-order; it
\* leaves the tree as it was, and a second call returns the same sequence.
CollectNodesCorrect ==
  f_call # "none" =>
    /\ \A i, j \in DOMAIN f_out.nodes : i # j => f_out.nodes[i] # f_out.nodes[j]
    /\ { f_out.nodes[i] : i \in DOMAIN f_out.nodes }
         = { m \in DOMAIN f_in.tree.nodes :
               /\ InSubtree(f_in.tree, m, f_in.n)
               /\ f_in.tree.nodes[m].type = f_in.type_name }
    /\ \A i, j \in DOMAIN f_out.nodes :
         i < j => PreOrderBefore(f_in.tree, f_out.nodes[i], f_out.nodes[j])
    /\ f_out.tree = f_in.tree
    /\ f_call = "again" => f_out.again = f_out.nodes

\* Two calls that found a node of the type inside another node of the type.
CollectNodesCorrectWitness ==
  /\ f_call = "again"
  /\ \E i, j \in DOMAIN f_out.nodes :
       i # j /\ InSubtree(f_in.tree, f_out.nodes[j], f_out.nodes[i])

\* The records emitted so far for entry e, in output order.
RecordsOf(e) ==
  LET at == SelectSeq([k \in DOMAIN origin |-> k], LAMBDA k : origin[k] = e)
  IN [k \in DOMAIN at |-> results[at[k]]]

AcceptedCalls == SelectSeq(calls, LAMBDA c : c.outcome = "accepted")

\* The output is grouped by entry in input order; the invocations made for the
\* current entry are those of operators 1, 2, ... in configured order, and
\* its records are the accepted ones among them, in that order.
OrderState ==
  /\ \A i, j \in DOMAIN origin : i < j => origin[i] <= origin[j]
  /\ \A k \in DOMAIN origin : origin[k] <= ei
  /\ \A k \in DOMAIN calls : calls[k].op = operators[k]
  /\ pc = "operators" => Len(calls) = oi - 1
  /\ ei >= 1 =>
       /\ Len(RecordsOf(ei)) = Len(AcceptedCalls)
       /\ \A k \in DOMAIN AcceptedCalls :
            /\ RecordsOf(ei)[k].mutated_code = AcceptedCalls[k].code
            /\ RecordsOf(ei)[k].mutations_applied = AcceptedCalls[k].records

\* Entries are taken one after the other and operators one after the other;
\* the generator changes only when the run seeds it and when the operator
\* whose turn it is draws from it, never between entries; the output only
\* grows at its end, by a record of the current entry.
OrderStep ==
  /\ ei' # ei => ei' = ei + 1 /\ oi' = 1 /\ rng' = rng
  /\ (ei' = ei /\ oi' # oi) => oi' = oi + 1
  /\ rng' # rng =>
       \/ pc = "start" /\ rng' = Random(seed)
       \/ /\ pc = "operators" /\ ei' = ei /\ oi' = oi + 1
          /\ rng' = apply(operators[oi], entries[ei].code,
                          parse_python(entries[ei].code), rng).rng
  /\ results' # results =>
       /\ Len(results') = Len(results) + 1
       /\ SubSeq(results', 1, Len(results)) = results
       /\ origin' = Append(origin, ei)

\* C18: operators are invoked and the one generator is consumed in entry
\* order and, within an entry, in configured operator order; the generator is
\* not seeded again between entries; the output keeps that order.
OrderPreserved == []OrderState /\ [][OrderStep]_vars

\* A run over two entries that emitted two records for the first, from two
\* operators, and then one for the second, the generator having moved on.
OrderPreservedWitness ==
  /\ pc = "done" /\ Len(entries) = 2
  /\ Len(origin) >= 3 /\ origin[1] = 1 /\ origin[2] = 1 /\ origin[Len(origin)] = 2
  /\ rng # Random(seed)

\* int(s) for a string of decimal digits.
DigitValue(c) == CHOOSE d \in 0..9 : DigitChar[d + 1] = c
RECURSIVE StrToInt(_)
StrToInt(s) ==
  IF s = <<>> THEN 0
  ELSE 10 * StrToInt(SubSeq(s, 1, Len(s) - 1)) + DigitValue(s[Len(s)])

\* The sequence number of an identifier: what follows its last "_".
SequenceNumber(id) ==
  LET us == CHOOSE i \in DOMAIN id : id[i] = "_" /\ \A j \in (i + 1)..Len(id) : id[j] # "_"
  IN StrToInt(SubSeq(id, us + 1, Len(id)))

\* C19: the sequence numbers in the identifiers of the records emitted for an
\* entry are 0, 1, ..., k-1 in output order, whatever the kinds of the
\* operators and however many applications of the entry were skipped, raised
\* or were rejected by the oracle.
SequenceNumbers ==
  \A e \in 1..Len(entries) :
    \A k \in DOMAIN RecordsOf(e) :
       /\ SequenceNumber(RecordsOf(e)[k].mutation_id) = k - 1
       /\ RecordsOf(e)[k].mutation_id =
            IntToStr(entries[e].task_id) \o <<"_">>
            \o RecordsOf(e)[k].mutations_applied[1].mutation_type
            \o <<"_">> \o IntToStr(k - 1)

\* An entry for which one application raised, one was rejected by the oracle,
\* one was skipped and two of different kinds were accepted.
SequenceNumbersWitness ==
  /\ pc = "done" /\ Len(RecordsOf(1)) = 2
  /\ RecordsOf(1)[1].mutations_applied[1].mutation_type
       # RecordsOf(1)[2].mutations_applied[1].mutation_type
  /\ \A o \in {"raised", "rejected", "skipped"} :
       \E k \in DOMAIN calls : calls[k].outcome = o /\ k < Len(calls)

\* Every record carries the code, description and tests of its entry, and
\* the records of one application, all of one kind.
CopiedFromEntry ==
  \A k \in DOMAIN results :
    /\ results[k].original_task_id = entries[origin[k]].task_id
    /\ results[k].original_code = entries[origin[k]].code
    /\ results[k].text = entries[origin[k]].text
    /\ results[k].test_list = entries[origin[k]].test_list
    /\ results[k].test_setup_code = entries[origin[k]].test_setup_code
    /\ results[k].challenge_test_list = entries[origin[k]].challenge_test_list
    /\ results[k].mutations_applied # <<>>
    /\ \A i \in DOMAIN results[k].mutations_applied :
         results[k].mutations_applied[i].mutation_type
           = results[k].mutations_applied[1].mutation_type

\* A record that joins the output holds what the operator whose turn it is
\* makes of the code of the entry as it was handed in and of the tree of that
\* code, whatever was emitted for the entry before.
OneApplication ==
  results' # results =>
    LET r == apply(operators[oi], entries[ei].code, parse_python(entries[ei].code), rng)
    IN /\ results'[Len(results')].mutated_code = r.code
       /\ results'[Len(results')].mutations_applied = r.records
       /\ results'[Len(results')].mutations_applied[1].mutation_type = operators[oi]

\* C20: mutations are never chained: each record has the code of its entry as
\* original_code, the result of one operator applied to that code as
\* mutated_code, the records of that one application (all of one kind) as
\* mutations_applied, and the description and tests of the entry.
NeverChained == []CopiedFromEntry /\ [][OneApplication]_vars

\* Two records for one entry, from two operators of different kinds, with
\* different mutated code.
NeverChainedWitness ==
  \E i, j \in DOMAIN results :
    /\ i < j /\ origin[i] = origin[j]
    /\ results[i].mutations_applied[1].mutation_type
         # results[j].mutations_applied[1].mutation_type
    /\ results[i].mutated_code # results[j].mutated_code
    /\ results[j].original_code = entries[origin[j]].code

(***************************************************************************)
(* The spans the operators hand to _replace_ranges.                        *)
(***************************************************************************)
\* The plan of the call the state records.
APlan == PlanOf(a_op, parse_python(a_source), a_rng)

\* The call returned what its plan finishes to.
AFinished == a_out = Finish(a_source, APlan)

\* C21: in every call of one of the four operators, the spans handed to
\* _replace_ranges are pairwise disjoint: no two of them overlap and none is
\* listed twice.
SpansDisjoint ==
  ACalled => AFinished /\ PairwiseNonOverlapping(APlan.replacements)

\* Calls of each operator that hand over two spans or more.
SpansDisjointWitness ==
  /\ a_op = "rename_variable"
  /\ APlan.handed /\ Len(APlan.replacements) >= 2
  /\ a_out.code # a_source

(***************************************************************************)
(* The parameters rename_variable chooses among.                           *)
(***************************************************************************)
\* The elements of a list.
Range(s) == { s[k] : k \in DOMAIN s }

\* The identifier that names the parameter a child of a parameters node
\* declares, whatever the form of the parameter: the first identifier of the
\* child in pre-order; 0 for punctuation.
ParameterIdentifier(tree, child) ==
  IF _collect_nodes(tree, child, "identifier") = <<>> THEN 0
  ELSE _collect_nodes(tree, child, "identifier")[1]

\* The parameter identifiers of a function other than self.
ParameterIdentifiers(tree, func_node) ==
  { n \in { ParameterIdentifier(tree, c) :
              c \in Range(tree.nodes[child_by_field_name(tree, func_node, "parameters")].kids) } :
      n # 0 /\ NodeText(tree, n) # SelfName }

\* C22: the pool rename_variable chooses from is every parameter identifier of
\* the chosen function other than self, whatever the form of the parameter
\* (plain, typed, with a default, typed with a default, starred), and the
\* operator returns no record only when the chosen function has no such
\* parameter.
CandidatePoolComplete ==
  a_op = "rename_variable" /\ APlan.chosen.func_node # 0 =>
    /\ Range(APlan.chosen.param_ids)
         = ParameterIdentifiers(parse_python(a_source), APlan.chosen.func_node)
    /\ a_out.records = <<>> =>
         ParameterIdentifiers(parse_python(a_source), APlan.chosen.func_node) = {}

(***************************************************************************)
(* The name rename_variable gives the parameter.                           *)
(***************************************************************************)
\* The identifiers of the parameters and the body of the chosen function that
\* the rename leaves alone.
KeptIdentifiers(tree, chosen) ==
  { n \in Identifiers(tree) :
      /\ \/ Inside(tree, n, child_by_field_name(tree, chosen.func_node, "parameters"))
         \/ Inside(tree, n, child_by_field_name(tree, chosen.func_node, "body"))
      /\ n # chosen.target
      /\ n \notin Range(chosen.refs) }

\* The new name is one of _VAR_NAMES and is not the old name.
FromPool(rec) ==
  /\ rec.replacement \in Range(_VAR_NAMES)
  /\ rec.replacement # rec.original

\* The original statement of C23: the new name is one of _VAR_NAMES, is not the
\* old name, and is the name of no other parameter and of no other identifier
\* of the chosen function.
NewNameFresh ==
  a_op = "rename_variable" /\ a_out.records # <<>> =>
    /\ FromPool(a_out.records[1])
    /\ \A n \in KeptIdentifiers(parse_python(a_source), APlan.chosen) :
         NodeText(parse_python(a_source), n) # a_out.records[1].replacement

\* C23: the name a successful rename_variable gives the parameter is one of
\* _VAR_NAMES, is not the old name of the parameter, and is the name written
\* at the declaration and at every reference the rename rewrites; it may be
\* the name of another parameter or identifier of the function.
NewNameFromPool ==
  a_op = "rename_variable" /\ a_out.records # <<>> =>
    /\ FromPool(a_out.records[1])
    /\ APlan.chosen.target # 0
    /\ NodeText(parse_python(a_source), APlan.chosen.target) = a_out.records[1].original
    /\ \A k \in DOMAIN APlan.replacements :
         APlan.replacements[k].text = a_out.records[1].replacement

\* A rename that gives a parameter the name of another parameter.
NewNameFromPoolWitness ==
  /\ a_op = "rename_variable" /\ a_out.records # <<>>
  /\ \E n \in KeptIdentifiers(parse_python(a_source), APlan.chosen) :
       NodeText(parse_python(a_source), n) = a_out.records[1].replacement

(***************************************************************************)
(* The name rename_user_type gives the class.                              *)
(***************************************************************************)
MaxChain == 3   \* how often rename_user_type is applied to its own result

\* The name of the class after k applications, each to the result of the last.
RECURSIVE NameAfter(_, _)
NameAfter(name, k) ==
  IF k = 0 THEN name ELSE UserTypeNewName(NameAfter(name, k - 1))

\* The spans of the nodes ns, in the order of the tree, each with the text.
SpansAt(tree, ns, text) ==
  [k \in 1..Len(SelectSeq([u \in 1..Len(tree.nodes) |-> u], LAMBDA u : u \in ns)) |->
     Span(tree.nodes[SelectSeq([u \in 1..Len(tree.nodes) |-> u], LAMBDA u : u \in ns)[k]].start,
          tree.nodes[SelectSeq([u \in 1..Len(tree.nodes) |-> u], LAMBDA u : u \in ns)[k]].end,
          text)]

UserTypeRenamedIn(tree, rec) ==
  /\ rec.mutation_type = MutationType.RENAME_USER_TYPE
  /\ \E c \in DOMAIN tree.nodes :
       /\ tree.nodes[c].type = "class_definition"
       /\ NodeText(tree, child_by_field_name(tree, c, "name")) = rec.original
  /\ rec.replacement =
       IF Len(rec.original) >= 2 /\ SubSeq(rec.original, 1, 2) = <<"M","y">>
       THEN rec.original \o <<"V","2">>
       ELSE <<"M","y">> \o rec.original
  /\ rec.replacement # rec.original
  /\ \A i, j \in 0..MaxChain : i < j => NameAfter(rec.original, i) # NameAfter(rec.original, j)
  /\ a_out.code =
       Substituted(a_source,
                   SpansAt(tree, { n \in Identifiers(tree) : NodeText(tree, n) = rec.original },
                           rec.replacement),
                   0)

\* C24: a successful rename_user_type yields exactly one record; the new name
\* is My followed by the old name, or the old name followed by V2 when the old
\* name starts with My; it differs from the old name; applying the rule again
\* and again never gives a name it gave before; and the returned source is
\* the given one with every identifier of the tree whose text is the old name
\* replaced by the new name.
UserTypeRenamed ==
  a_op = "rename_user_type" /\ a_out.records # <<>> =>
    /\ Len(a_out.records) = 1
    /\ UserTypeRenamedIn(parse_python(a_source), a_out.records[1])

\* The class C with a reference in a return annotation, and the class My.
UserTypeRenamedWitness ==
  /\ a_op = "rename_user_type" /\ a_out.records # <<>>
  /\ Len(APlan.replacements) >= 2
  /\ a_out.code # a_source

(***************************************************************************)
(* _is_annotation_context on every node of trees whose annotations and     *)
(* bodies hold subscripts and attributes, nested.                          *)
(***************************************************************************)
MaxNest == 2   \* deepest nesting of subscripts and attributes in an expression

\* value[index]
SubscriptPiece(value, index) ==
  Mk("subscript",
     << Part(value, "value"), Part(Leaf("[", <<"[">>), ""),
        Part(index, "subscript"), Part(Leaf("]", <<"]">>), "") >>)

\* object.name
AttributePiece(object, name) ==
  Mk("attribute",
     << Part(object, "object"), Part(Leaf(".", <<".">>), ""),
        Part(Ident(name), "attribute") >>)

\* int, and what subscripts and attributes make of it, nested up to d deep.
RECURSIVE NestedExprs(_)
NestedExprs(d) ==
  IF d = 0 THEN { Ident(n_int) }
  ELSE NestedExprs(d - 1)
       \cup { SubscriptPiece(v, Ident(n_int)) : v \in NestedExprs(d - 1) }
       \cup { SubscriptPiece(Ident(<<"l","i","s","t">>), v) : v \in NestedExprs(d - 1) }
       \cup { AttributePiece(v, <<"T">>) : v \in NestedExprs(d - 1) }

\* def f(x: E) -> E: return E
AnnotatedPiece(e) ==
  Mk("function_definition",
     << Part(Leaf("def", <<"d","e","f">>), ""), Part(Sp, ""),
        Part(Ident(<<"f">>), "name"),
        Part(Mk("parameters",
                << Part(Leaf("(", <<"(">>), ""),
                   Part(Mk("typed_parameter",
                           << Part(Ident(<<"x">>), ""), Part(Leaf(":", <<":">>), ""),
                              Part(Sp, ""), Part(Mk("type", << Part(e, "") >>), "type") >>),
                        ""),
                   Part(Leaf(")", <<")">>), "") >>),
             "parameters"),
        Part(Sp, ""), Part(Leaf("->", <<"-",">">>), ""), Part(Sp, ""),
        Part(Mk("type", << Part(e, "") >>), "return_type"),
        Part(Leaf(":", <<":">>), ""), Part(Sp, ""),
        Part(Mk("block",
                << Part(Mk("return_statement",
                           << Part(Leaf("return", <<"r","e","t","u","r","n">>), ""),
                              Part(Sp, ""), Part(e, "") >>), "") >>),
             "body") >>)

AnnotTrees ==
  { Tree(Mk("module", << Part(AnnotatedPiece(e), ""), Part(Gap(<<"\n">>), "") >>)) :
      e \in NestedExprs(MaxNest) }

NoAnswer == [answered |-> FALSE, result |-> FALSE]

InitAnnot ==
  /\ OIdle /\ AIdle /\ RIdle
  /\ f_call = "none"
  /\ f_in \in UNION { { [tree |-> t, n |-> n] : n \in DOMAIN t.nodes } :
                        t \in AnnotTrees \cup CorpusSet }
  /\ f_out = NoAnswer

IsAnnotationContext ==
  /\ f_call = "none"
  /\ f_call' = "_is_annotation_context"
  /\ f_out' = [answered |-> TRUE, result |-> _is_annotation_context(f_in.tree, f_in.n)]
  /\ UNCHANGED << f_in, ovars, avars, rvars >>

NextAnnot == IsAnnotationContext

SpecAnnot == InitAnnot /\ [][NextAnnot]_vars

\* The definition by recursion on the parent alone.
RECURSIVE InAnnotation(_, _)
InAnnotation(tree, n) ==
  /\ tree.nodes[n].parent # 0
  /\ \/ tree.nodes[tree.nodes[n].parent].type
          \in {"type", "typed_parameter", "function_definition"}
     \/ /\ tree.nodes[tree.nodes[n].parent].type \in {"subscript", "attribute"}
        /\ InAnnotation(tree, tree.nodes[n].parent)

\* C25: for every node of every tree, _is_annotation_context is true exactly
\* when the parent of the node is a type, a typed_parameter or a
\* function_definition, or is a subscript or an attribute that is itself in
\* annotation context; it is false for the root.
AnnotationContextRecursive ==
  f_call = "_is_annotation_context" =>
    /\ f_out.result = InAnnotation(f_in.tree, f_in.n)
    /\ f_in.n = 1 => ~f_out.result

\* An identifier found in annotation context three levels below the type.
AnnotationContextRecursiveWitness ==
  /\ f_call = "_is_annotation_context" /\ f_out.result
  /\ f_in.tree.nodes[f_in.n].type = "identifier"
  /\ f_in.tree.nodes[f_in.tree.nodes[f_in.n].parent].type = "attribute"
  /\ f_in.tree.nodes[f_in.tree.nodes[f_in.tree.nodes[f_in.n].parent].parent].type
       = "subscript"

(***************************************************************************)
(* What rename_builtin_type rewrites.                                      *)
(***************************************************************************)
\* The identifiers whose text is a built-in type name and that are in
\* annotation context.
BuiltinMatches(tree) ==
  { n \in Identifiers(tree) :
      NodeText(tree, n) \in _BUILTIN_TYPES /\ InAnnotation(tree, n) }

BuiltinRenamedIn(tree, rec) ==
  /\ rec.mutation_type = MutationType.RENAME_BUILTIN_TYPE
  /\ \E t \in BuiltinMatches(tree) : NodeText(tree, t) = rec.original
  /\ rec.replacement = <<"M","y">> \o capitalize(rec.original)
  /\ a_out.code =
       rec.replacement \o <<" ","="," ">> \o rec.original \o <<"\n">>
       \o Substituted(a_source,
                      SpansAt(tree,
                              { n \in BuiltinMatches(tree) : NodeText(tree, n) = rec.original },
                              rec.replacement),
                      0)

DeclaredNames(tree) ==
  { n \in Identifiers(tree) :
      \E f \in DOMAIN tree.nodes :
        /\ tree.nodes[f].type = "function_definition"
        /\ \/ n = child_by_field_name(tree, f, "name")
           \/ \E c \in Range(tree.nodes[child_by_field_name(tree, f, "parameters")].kids) :
                n = ParameterIdentifier(tree, c) }

\* C27: rename_builtin_type rewrites no identifier that is the name of a
\* function or the name of a parameter.
DeclaredNamesKept ==
  a_op = "rename_builtin_type" =>
    Range(APlan.chosen.refs) \cap DeclaredNames(parse_python(a_source)) = {}

(***************************************************************************)
(* What remove_type_annotation removes.                                    *)
(***************************************************************************)
FunctionNodes(tree) ==
  { f \in DOMAIN tree.nodes : tree.nodes[f].type = "function_definition" }

\* The arrows of the functions that have a return type, and the
\* typed_parameter nodes of the parameter lists whose name is not self.
AnnotationNodes(tree) ==
  { u \in DOMAIN tree.nodes :
      \E f \in FunctionNodes(tree) :
        \/ /\ tree.nodes[u].type = "->" /\ tree.nodes[u].parent = f
           /\ child_by_field_name(tree, f, "return_type") # 0
        \/ /\ tree.nodes[u].type = "typed_parameter"
           /\ Inside(tree, u, child_by_field_name(tree, f, "parameters"))
           /\ NodeText(tree, tree.nodes[u].kids[1]) # SelfName }

\* What an annotation node and what follows it are replaced by: nothing from
\* the arrow to the end of the return type, the bare name for a parameter.
AnnotationSpan(tree, u) ==
  IF tree.nodes[u].type = "->"
  THEN Span(tree.nodes[u].start,
            tree.nodes[child_by_field_name(tree, tree.nodes[u].parent, "return_type")].end,
            <<>>)
  ELSE Span(tree.nodes[u].start, tree.nodes[u].end, NodeText(tree, tree.nodes[u].kids[1]))

AnnotationSpans(tree, us) == [k \in 1..Len(us) |-> AnnotationSpan(tree, us[k])]

AnnotationsRemovedIn(tree, us) ==
  /\ Len(a_out.records) = Len(us)
  /\ Len(APlan.replacements) = Len(us)
  /\ \A k \in DOMAIN a_out.records :
       a_out.records[k].mutation_type = MutationType.REMOVE_TYPE_ANNOTATION
  /\ a_out.code = Substituted(a_source, AnnotationSpans(tree, us), 0)
  /\ us = <<>> => a_out.code = a_source
  /\ \A f \in FunctionNodes(tree) :
       Cardinality({ k \in DOMAIN us : tree.nodes[us[k]].type = "->"
                                       /\ tree.nodes[us[k]].parent = f }) <= 1

MaxIterations == 2   \* largest max_iterations of ImproveConfig

\* min_score_threshold: the default of ImproveConfig and a lower one.
Thresholds == {5, 7}

\* What the judge may write in a score field.
ScoreTexts ==
  { <<" ","7"," ">>, <<"9","/","1","0">>, <<"6",".","5">>, <<"b","a","d">>,
    <<"i","n","f">> }

IsDigits(s) == s # <<>> /\ \A k \in DOMAIN s : \E d \in 0..9 : DigitChar[d + 1] = s[k]

\* The offset of the first c in s, 0 when there is none.
Find(s, c) ==
  IF \E k \in DOMAIN s : s[k] = c
  THEN CHOOSE k \in DOMAIN s : s[k] = c /\ \A j \in 1..(k - 1) : s[j] # c
  ELSE 0

\* s.split("/")[0].strip() if "/" in s
BeforeSlash(s) ==
  IF Find(s, "/") = 0 THEN s ELSE strip(SubSeq(s, 1, Find(s, "/") - 1))

\* int(float(s)) for the decimal texts, inf and text that is no number.
IntOfFloat(s) ==
  IF s = <<"i","n","f">> THEN [raises |-> "OverflowError", value |-> 0]
  ELSE IF IsDigits(s) THEN [raises |-> "", value |-> StrToInt(s)]
  ELSE IF Find(s, ".") > 1 /\ IsDigits(SubSeq(s, 1, Find(s, ".") - 1))
          /\ IsDigits(SubSeq(s, Find(s, ".") + 1, Len(s)))
       THEN [raises |-> "", value |-> StrToInt(SubSeq(s, 1, Find(s, ".") - 1))]
  ELSE [raises |-> "ValueError", value |-> 0]

\* _parse_score: ValueError and TypeError give 5, any other error leaves.
_parse_score(value) ==
  IF IntOfFloat(BeforeSlash(strip(value))).raises = "ValueError"
  THEN [raises |-> "", value |-> 5]
  ELSE IntOfFloat(BeforeSlash(strip(value)))

NoScores == << >>

\* A variant that is content with one score at the threshold.
ScoresMeet_Any(scores, threshold) ==
  \E k \in DOMAIN scores : scores[k] >= threshold

\* Lines 84-88.
ScoresMeet(scores, threshold) ==
  \A k \in DOMAIN scores : scores[k] >= threshold

Improving(iteration, judge_scores, version, trace, last) ==
  [iteration |-> iteration, judge_scores |-> judge_scores, version |-> version,
   trace |-> trace, last |-> last]

InitImprove ==
  /\ OIdle /\ AIdle /\ RIdle
  /\ f_call = "for"
  /\ f_in \in [max_iterations : 0..MaxIterations, min_score_threshold : Thresholds]
  /\ f_out = Improving(0, NoScores, 0, <<>>, "none")

ImproveTo(place, out) ==
  /\ f_call' = place
  /\ f_out' = out
  /\ UNCHANGED << f_in, ovars, avars, rvars >>

\* Line 40 to the call of line 59: the next iteration, or line 131.
ForIteration ==
  /\ f_call = "for"
  /\ IF f_out.iteration < f_in.max_iterations
     THEN ImproveTo("judge", [f_out EXCEPT !.trace = Append(@, "judge")])
     ELSE ImproveTo("returned", f_out)

\* Lines 65-90 and the call of line 100: the judge answers.
JudgeAnswers(correctness, completeness, proof_score) ==
  /\ f_call = "judge"
  /\ IF correctness.raises # "" \/ completeness.raises # "" \/ proof_score.raises # ""
     THEN ImproveTo("returned", [f_out EXCEPT !.last = "judge_failed"])
     ELSE IF ScoresMeet(<< correctness.value, completeness.value, proof_score.value >>,
                        f_in.min_score_threshold)
     THEN ImproveTo("returned",
                    [f_out EXCEPT !.last = "judged",
                                  !.judge_scores = << correctness.value, completeness.value,
                                                      proof_score.value >>])
     ELSE ImproveTo("reflect",
                    [f_out EXCEPT !.last = "judged",
                                  !.judge_scores = << correctness.value, completeness.value,
                                                      proof_score.value >>,
                                  !.trace = Append(@, "reflect")])

JudgeReturns ==
  \E a, b, c \in ScoreTexts :
    JudgeAnswers(_parse_score(a), _parse_score(b), _parse_score(c))

\* Lines 92-94: an Exception of the call.
JudgeRaises ==
  /\ f_call = "judge"
  /\ ImproveTo("returned", [f_out EXCEPT !.last = "judge_failed"])

\* Lines 106-122 and the call of line 129.
ReflectReturns ==
  /\ f_call = "reflect"
  /\ ImproveTo("debug_loop",
               [f_out EXCEPT !.last = "reflected", !.version = @ + 1,
                             !.trace = Append(@, "debug_loop")])

\* Lines 124-126.
ReflectRaises ==
  /\ f_call = "reflect"
  /\ ImproveTo("returned", [f_out EXCEPT !.last = "reflection_failed"])

\* Line 129: output is what debug_loop returns, and the loop goes on.
DebugLoopReturns ==
  /\ f_call = "debug_loop"
  /\ ImproveTo("for", [f_out EXCEPT !.last = "debugged", !.iteration = @ + 1])

\* An exception of debug_loop is not caught; nor is one that is no Exception
\* (the cancellation of the task) at any of the three awaits.
Propagates ==
  /\ f_call \in {"judge", "reflect", "debug_loop"}
  /\ ImproveTo("raised", [f_out EXCEPT !.last = "raised"])

NextImprove ==
  \/ ForIteration \/ JudgeRaises \/ JudgeReturns
  \/ ReflectReturns \/ ReflectRaises \/ DebugLoopReturns \/ Propagates

\* Each awaited call comes back and the coroutine is resumed.
SpecImprove == InitImprove /\ [][NextImprove]_vars /\ WF_vars(NextImprove)

Count(trace, what) == Cardinality({ k \in DOMAIN trace : trace[k] = what })

\* The calls so far are rounds of judge, reflect, debug_loop, in that order,
\* the last round possibly cut short.
InOrder(trace) ==
  \A k \in DOMAIN trace :
    trace[k] = CASE k % 3 = 1 -> "judge" [] k % 3 = 2 -> "reflect" [] OTHER -> "debug_loop"

ImproveState ==
  /\ InOrder(f_out.trace)
  /\ Count(f_out.trace, "judge") <= f_in.max_iterations
  /\ Count(f_out.trace, "debug_loop") <= f_in.max_iterations
  /\ Count(f_out.trace, "debug_loop") = f_out.version

ImproveStep ==
  /\ f_call = "judge" /\ f_out'.last = "judge_failed" => f_call' = "returned"
  /\ f_call = "reflect" /\ f_out'.last = "reflection_failed" => f_call' = "returned"
  /\ f_call = "judge" /\ f_out'.last = "judged" =>
       IF \A k \in 1..3 : f_out'.judge_scores[k] >= f_in.min_score_threshold
       THEN f_call' = "returned" /\ f_out'.trace = f_out.trace
       ELSE f_call' = "reflect"
  /\ f_out'.trace # f_out.trace /\ f_call' = "debug_loop" =>
       f_call = "reflect" /\ f_out'.last = "reflected"

ImproveDone == f_call \in {"returned", "raised"}

\* C29: improve_loop comes to an end, after at most max_iterations calls of
\* the judge; the calls of one iteration are judge, reflect, debug_loop in
\* that order; when the three scores are all at least min_score_threshold it
\* returns without calling the reflector, and when the judge or the
\* reflector raises it returns; debug_loop is called at most max_iterations
\* times, each time after a reflection that succeeded.
ImproveLoopBounded ==
  /\ []ImproveState
  /\ [][ImproveStep]_vars
  /\ <>ImproveDone

\* The loop ran max_iterations rounds, two at least, and returned.
ImproveLoopBoundedWitness ==
  /\ f_call = "returned"
  /\ f_in.max_iterations >= 2
  /\ Count(f_out.trace, "debug_loop") = f_in.max_iterations
  /\ f_out.last = "debugged"

(***************************************************************************)
(* solver.py: TaskSolver.solve_batch.  One task per entry, each inside     *)
(* "async with semaphore"; the event loop runs the tasks in any order and  *)
(* gather hands back their results in the order of the entries.            *)
(***************************************************************************)
MaxTasks == 3        \* longest entry list handed to solve_batch
MaxConcurrent == 2   \* largest max_concurrent of Phase3Config

\* phase3/schema.py: the fields of SolverResult the batch decides.
SolverResult(task_id, passes_tests, error) ==
  [task_id |-> task_id, passes_tests |-> passes_tests, error |-> error]

\* An element of what gather returns: the value a task returned, or the
\* exception it raised.
Returned(value) == [exception |-> FALSE, value |-> value]
Raised(task_id) == [exception |-> TRUE, value |-> SolverResult(task_id, FALSE, "raised")]
Pending == [exception |-> FALSE, value |-> SolverResult(0, FALSE, "pending")]

\* What one _limited task may end with: the result of solve_one, with or
\* without an error of the solver in it, or an exception.
TaskOutcomes(task_id) ==
  { Returned(SolverResult(task_id, TRUE, "None")),
    Returned(SolverResult(task_id, FALSE, "None")),
    Returned(SolverResult(task_id, FALSE, "solver error")),
    Raised(task_id) }

\* A variant of a semaphore that is never locked.
Locked_Never(value) == FALSE

\* asyncio.Semaphore.locked: no permit is left.
Locked(value) == value = 0

Solving(tasks, value, gathered, peak, solver_results) ==
  [tasks |-> tasks, value |-> value, results |-> gathered, peak |-> peak,
   solver_results |-> solver_results]

\* The entries are told apart by their task_id, here their index.
InitSolve ==
  /\ OIdle /\ AIdle /\ RIdle
  /\ f_call = "solve_batch"
  /\ f_in \in [entries : {[i \in 1..n |-> i] : n \in 0..MaxTasks},
               max_concurrent : 0..MaxConcurrent]
  /\ f_out = Solving(<<>>, 0, <<>>, 0, <<>>)

SolveTo(place, out) ==
  /\ f_call' = place
  /\ f_out' = out
  /\ UNCHANGED << f_in, ovars, avars, rvars >>

Running(tasks) == { i \in DOMAIN tasks : tasks[i] = "solve_one" }

\* Lines 100-107: the semaphore, one task per entry, and the await of gather.
Gather ==
  /\ f_call = "solve_batch"
  /\ SolveTo("gather",
             Solving([i \in DOMAIN f_in.entries |-> "acquire"], f_in.max_concurrent,
                     [i \in DOMAIN f_in.entries |-> Pending], 0, <<>>))

\* Line 103: a task enters the semaphore and calls solve_one.
Acquire(i) ==
  /\ f_call = "gather"
  /\ f_out.tasks[i] = "acquire"
  /\ ~Locked(f_out.value)
  /\ SolveTo("gather",
             [f_out EXCEPT !.tasks[i] = "solve_one", !.value = @ - 1,
                           !.peak = Max(@, Cardinality(Running(f_out.tasks)) + 1)])

\* Lines 103-104: solve_one comes back, the semaphore is released and the
\* task ends with what solve_one returned or raised.
Release(i, outcome) ==
  /\ f_call = "gather"
  /\ f_out.tasks[i] = "solve_one"
  /\ SolveTo("gather",
             [f_out EXCEPT !.tasks[i] = "done", !.value = @ + 1, !.results[i] = outcome])

\* Lines 109-128: every task has ended; an exception becomes a SolverResult
\* of the entry at its index.
Collect ==
  /\ f_call = "gather"
  /\ \A i \in DOMAIN f_out.tasks : f_out.tasks[i] = "done"
  /\ SolveTo("returned",
             [f_out EXCEPT !.solver_results =
                [i \in DOMAIN f_out.results |->
                   IF f_out.results[i].exception
                   THEN SolverResult(f_in.entries[i], FALSE, "Exception")
                   ELSE f_out.results[i].value]])

NextSolve ==
  \/ Gather
  \/ \E i \in 1..MaxTasks : i \in DOMAIN f_out.tasks /\ Acquire(i)
  \/ \E i \in 1..MaxTasks :
       i \in DOMAIN f_out.tasks /\ \E outcome \in TaskOutcomes(f_in.entries[i]) :
         Release(i, outcome)
  \/ Collect

\* The event loop runs a task that can go on, and every solve_one comes back.
SpecSolve == InitSolve /\ [][NextSolve]_vars /\ WF_vars(NextSolve)

SolveState ==
  /\ f_call = "gather" =>
       /\ Cardinality(Running(f_out.tasks)) <= f_in.max_concurrent
       /\ f_out.value + Cardinality(Running(f_out.tasks)) = f_in.max_concurrent
  /\ f_out.peak <= f_in.max_concurrent
  /\ f_call = "returned" =>
       /\ Len(f_out.solver_results) = Len(f_in.entries)
       /\ \A i \in DOMAIN f_in.entries :
            /\ f_out.solver_results[i].task_id = f_in.entries[i]
            /\ f_out.solver_results[i].error # "raised"

EveryTaskAcquires ==
  \A i \in 1..MaxTasks :
    <>(i \in DOMAIN f_in.entries =>
         i \in DOMAIN f_out.tasks /\ f_out.tasks[i] # "acquire")

=============================================================================
